---- MODULE Spec2Model ----
(***************************************************************************)
(* Model of simple-svelte-query's promise cache (src/lib/query.svelte.ts): *)
(* Query (key serialisation, staleness), CacheEntry and the imperative     *)
(* QueryClient operations over the #queries map.                           *)
(***************************************************************************)
EXTENDS Integers, Sequences, FiniteSets, TLC

(* ------------------------------ bounds -------------------------------- *)
\* Date.now() ranges over 0..MaxTime (milliseconds).
MaxTime == 1
\* Promise objects created in one behaviour (queryFn results, Promise.resolve).
MaxPromises == 2
\* QueryClient instances constructed in one behaviour.
MaxClients == 2
\* Oldest timestamp handed to Query.isStale: Date.now() - MaxAge.
MaxAge == 2
\* Abort signals made for computations whose queryFn throws, in one behaviour.
MaxThrown == 2

(* ------------------- JavaScript numbers (IEEE subset) ------------------ *)
\* A number is finite, -Infinity or +Infinity; `undefined` marks an option
\* that was not given.
Fin(n) == [k |-> "fin", n |-> n]
NEGATIVE_INFINITY == [k |-> "-inf", n |-> 0]
POSITIVE_INFINITY == [k |-> "+inf", n |-> 0]
undefined == [k |-> "undefined", n |-> 0]

\* a - b where a is finite (a Date.now() reading).
Minus(a, b) ==
  CASE b.k = "fin" -> Fin(a.n - b.n)
    [] b.k = "-inf" -> POSITIVE_INFINITY
    [] b.k = "+inf" -> NEGATIVE_INFINITY

\* a > b on IEEE numbers.
GreaterThan(a, b) ==
  CASE a.k = "-inf" -> FALSE
    [] a.k = "+inf" -> b.k # "+inf"
    [] a.k = "fin" -> CASE b.k = "-inf" -> TRUE
                        [] b.k = "+inf" -> FALSE
                        [] b.k = "fin" -> a.n > b.n

(* ----------------------- JSON values and keys -------------------------- *)
\* A string is the sequence of its UTF-16 code units, as in JavaScript:
\* "a" is <<97>>, the newline <<10>>, the quote <<34>>, the backslash <<92>>.
Str(s) == [t |-> "string", s |-> s]
Num(n) == [t |-> "number", n |-> n]
Bool(b) == [t |-> "boolean", b |-> b]
Null == [t |-> "null"]
Arr(a) == [t |-> "array", a |-> a]
Prop(name, value) == [name |-> name, value |-> value]
\* The value undefined as a fragment, and an array that contains itself.
Undef == [t |-> "undefined"]
Cyclic == [t |-> "cycle"]

\* The code unit of the decimal digit d, and back.
Digit(d) == 48 + d
DigitValue(c) == c - 48
IsDigit(c) == c \in 48..57

\* An array index: the canonical decimal string of an integer from 0 to
\* 2^32 - 2 ("0", "7", "12"; not "01", not "4294967295").
RECURSIVE DigitsBefore(_, _)
DigitsBefore(a, b) ==
  /\ a # <<>>
  /\ \/ Head(a) < Head(b)
     \/ Head(a) = Head(b) /\ DigitsBefore(Tail(a), Tail(b))

\* a < b for two array indices.
IndexBefore(a, b) ==
  \/ Len(a) < Len(b)
  \/ Len(a) = Len(b) /\ DigitsBefore(a, b)

IsArrayIndex(name) ==
  /\ name # <<>>
  /\ \A i \in DOMAIN name : IsDigit(name[i])
  /\ Len(name) = 1 \/ name[1] # 48
  \* at most 4294967294
  /\ ~IndexBefore(<<52, 50, 57, 52, 57, 54, 55, 50, 57, 52>>, name)

\* o[p.name] = p.value on the property list o: a name the object has keeps
\* its place and takes the new value, a new name is added at the end.
DefineProperty(o, p) ==
  IF \E i \in DOMAIN o : o[i].name = p.name
  THEN [i \in DOMAIN o |-> IF o[i].name = p.name THEN p ELSE o[i]]
  ELSE Append(o, p)

RECURSIVE DefineProperties(_, _)
DefineProperties(o, writes) ==
  IF writes = <<>> THEN o
  ELSE DefineProperties(DefineProperty(o, Head(writes)), Tail(writes))

RECURSIVE InsertIndex(_, _)
InsertIndex(sorted, p) ==
  IF sorted = <<>> THEN <<p>>
  ELSE IF IndexBefore(p.name, Head(sorted).name) THEN <<p>> \o sorted
  ELSE <<Head(sorted)>> \o InsertIndex(Tail(sorted), p)

RECURSIVE SortIndices(_)
SortIndices(o) ==
  IF o = <<>> THEN <<>> ELSE InsertIndex(SortIndices(Tail(o)), Head(o))

IsIndexProp(p) == IsArrayIndex(p.name)
IsNamedProp(p) == ~IsArrayIndex(p.name)

\* The order in which JavaScript enumerates the own properties of an object:
\* the array indices in ascending numeric order, then the other names in the
\* order they were added.
OwnProperties(o) == SortIndices(SelectSeq(o, IsIndexProp)) \o SelectSeq(o, IsNamedProp)

\* The object { [name1]: value1, [name2]: value2, ... } whose properties were
\* written in the order of `writes`, kept as its own properties in
\* enumeration order.
Obj(writes) == [t |-> "object", o |-> OwnProperties(DefineProperties(<<>>, writes))]

RECURSIVE NatToChars(_)
NatToChars(n) ==
  IF n < 10 THEN <<Digit(n)>> ELSE NatToChars(n \div 10) \o <<Digit(n % 10)>>

\* 45 is the minus sign.
NumberToChars(n) == IF n < 0 THEN <<45>> \o NatToChars(0 - n) ELSE NatToChars(n)

\* Lower-case hexadecimal digit, and \uXXXX (92 is the backslash, 117 is u).
HexDigit(d) == IF d < 10 THEN 48 + d ELSE 87 + d
UnicodeEscape(c) ==
  <<92, 117, HexDigit(c \div 4096), HexDigit((c \div 256) % 16),
    HexDigit((c \div 16) % 16), HexDigit(c % 16)>>

IsLeadingSurrogate(c) == c \in 55296..56319
IsTrailingSurrogate(c) == c \in 56320..57343

\* JSON.stringify's QuoteJSONString without the enclosing quotes: \b \t \n \f
\* \r \" \\ for the characters that have a short form, \u00xx for the other
\* characters below U+0020 and \udxxx for a surrogate that is not part of a
\* pair; every other character is copied.
RECURSIVE Escape(_)
Escape(s) ==
  IF s = <<>> THEN <<>>
  ELSE LET c == Head(s)
       IN IF c >= 32 /\ c < 55296 /\ c # 34 /\ c # 92
          THEN <<c>> \o Escape(Tail(s))
          ELSE IF IsLeadingSurrogate(c) /\ Len(s) >= 2 /\ IsTrailingSurrogate(s[2])
          THEN <<c, s[2]>> \o Escape(Tail(Tail(s)))
          ELSE (IF c = 8 THEN <<92, 98>>
                ELSE IF c = 9 THEN <<92, 116>>
                ELSE IF c = 10 THEN <<92, 110>>
                ELSE IF c = 12 THEN <<92, 102>>
                ELSE IF c = 13 THEN <<92, 114>>
                ELSE IF c = 34 THEN <<92, 34>>
                ELSE IF c = 92 THEN <<92, 92>>
                ELSE IF c < 32 \/ IsLeadingSurrogate(c) \/ IsTrailingSurrogate(c)
                THEN UnicodeEscape(c)
                ELSE <<c>>) \o Escape(Tail(s))

\* JSON.stringify throws a TypeError on a value that contains a cycle.
RECURSIVE Serializable(_)
Serializable(v) ==
  CASE v.t = "cycle" -> FALSE
    [] v.t = "array" -> \A i \in DOMAIN v.a : Serializable(v.a[i])
    [] v.t = "object" -> \A i \in DOMAIN v.o : Serializable(v.o[i].value)
    [] OTHER -> TRUE

\* The texts null, true and false.
NullText == <<110, 117, 108, 108>>
TrueText == <<116, 114, 117, 101>>
FalseText == <<102, 97, 108, 115, 101>>

RECURSIVE JSONstringify(_)
RECURSIVE JoinValues(_)
RECURSIVE WriteProps(_)
\* Array elements, separated by commas (44): undefined is written as null.
JoinValues(a) ==
  IF a = <<>> THEN <<>>
  ELSE (IF a[1].t = "undefined" THEN NullText ELSE JSONstringify(a[1]))
       \o (IF Len(a) = 1 THEN <<>> ELSE <<44>> \o JoinValues(Tail(a)))

\* "name":value for each property of the list in turn (34 is the quote, 58
\* the colon): one whose value is undefined is left out.
WriteProps(o) ==
  IF o = <<>> THEN <<>>
  ELSE IF o[1].value.t = "undefined" THEN WriteProps(Tail(o))
  ELSE LET rest == WriteProps(Tail(o))
       IN <<34>> \o Escape(o[1].name) \o <<34, 58>> \o JSONstringify(o[1].value)
          \o (IF rest = <<>> THEN <<>> ELSE <<44>> \o rest)

\* Mutant: the properties written in the order of their names, whatever the
\* order they were added in.
RECURSIVE NameBefore(_, _)
NameBefore(a, b) ==
  IF a = <<>> THEN b # <<>>
  ELSE IF b = <<>> THEN FALSE
  ELSE IF a[1] # b[1] THEN a[1] < b[1]
  ELSE NameBefore(Tail(a), Tail(b))

RECURSIVE InsertByName(_, _)
InsertByName(p, sorted) ==
  IF sorted = <<>> THEN <<p>>
  ELSE IF NameBefore(p.name, sorted[1].name) THEN <<p>> \o sorted
  ELSE <<sorted[1]>> \o InsertByName(p, Tail(sorted))

RECURSIVE SortByName(_)
SortByName(o) ==
  IF o = <<>> THEN <<>> ELSE InsertByName(o[1], SortByName(Tail(o)))

JoinProps_sorted(o) == WriteProps(SortByName(o))

\* The properties of an object, in the order JavaScript enumerates them.
JoinProps(o) == WriteProps(OwnProperties(o))

\* 91 and 93 are the square brackets, 123 and 125 the braces.
JSONstringify(v) ==
  CASE v.t = "string" -> <<34>> \o Escape(v.s) \o <<34>>
    [] v.t = "number" -> NumberToChars(v.n)
    [] v.t = "boolean" -> IF v.b THEN TrueText ELSE FalseText
    [] v.t = "null" -> NullText
    [] v.t = "array" -> <<91>> \o JoinValues(v.a) \o <<93>>
    [] v.t = "object" -> <<123>> \o JoinProps(v.o) \o <<125>>

\* JSON.parse, by recursive descent from position i; each parser returns the
\* value read and the position after it.
RECURSIVE ParseDigits(_, _, _)
ParseDigits(s, i, acc) ==
  IF i <= Len(s) /\ IsDigit(s[i]) THEN ParseDigits(s, i + 1, acc * 10 + DigitValue(s[i]))
  ELSE [v |-> acc, i |-> i]

\* The value of a hexadecimal digit, in either case.
HexValue(c) == IF c \in 48..57 THEN c - 48 ELSE IF c \in 65..70 THEN c - 55 ELSE c - 87

\* The character an escape stands for: \" \\ \/ \b \f \n \r \t.
Unescape(c) ==
  IF c = 98 THEN 8
  ELSE IF c = 102 THEN 12
  ELSE IF c = 110 THEN 10
  ELSE IF c = 114 THEN 13
  ELSE IF c = 116 THEN 9
  ELSE c

\* i is the position after the opening quote.
RECURSIVE ParseString(_, _, _)
ParseString(s, i, acc) ==
  IF s[i] = 34 THEN [v |-> Str(acc), i |-> i + 1]
  ELSE IF s[i] = 92
  THEN IF s[i + 1] = 117
       THEN ParseString(s, i + 6,
                        Append(acc, HexValue(s[i + 2]) * 4096 + HexValue(s[i + 3]) * 256
                                    + HexValue(s[i + 4]) * 16 + HexValue(s[i + 5])))
       ELSE ParseString(s, i + 2, Append(acc, Unescape(s[i + 1])))
  ELSE ParseString(s, i + 1, Append(acc, s[i]))

RECURSIVE ParseValue(_, _)
RECURSIVE ParseElements(_, _, _)
RECURSIVE ParseMembers(_, _, _)
ParseElements(s, i, acc) ==
  LET r == ParseValue(s, i)
  IN IF s[r.i] = 44 THEN ParseElements(s, r.i + 1, Append(acc, r.v))
     ELSE [v |-> Arr(Append(acc, r.v)), i |-> r.i + 1]

\* i is the position of the quote that opens the property name; the members
\* are defined on the new object in the order of the text.
ParseMembers(s, i, acc) ==
  LET name == ParseString(s, i + 1, <<>>)
      r == ParseValue(s, name.i + 1)
      o == Append(acc, Prop(name.v.s, r.v))
  IN IF s[r.i] = 44 THEN ParseMembers(s, r.i + 1, o)
     ELSE [v |-> Obj(o), i |-> r.i + 1]

ParseValue(s, i) ==
  CASE s[i] = 34 -> ParseString(s, i + 1, <<>>)
    [] s[i] = 91 -> IF s[i + 1] = 93 THEN [v |-> Arr(<<>>), i |-> i + 2]
                    ELSE ParseElements(s, i + 1, <<>>)
    [] s[i] = 123 -> IF s[i + 1] = 125 THEN [v |-> Obj(<<>>), i |-> i + 2]
                     ELSE ParseMembers(s, i + 1, <<>>)
    [] s[i] = 116 -> [v |-> Bool(TRUE), i |-> i + 4]
    [] s[i] = 102 -> [v |-> Bool(FALSE), i |-> i + 5]
    [] s[i] = 110 -> [v |-> Null, i |-> i + 4]
    [] s[i] = 45 -> LET r == ParseDigits(s, i + 1, 0)
                    IN [v |-> Num(0 - r.v), i |-> r.i]
    [] OTHER -> LET r == ParseDigits(s, i, 0) IN [v |-> Num(r.v), i |-> r.i]

JSONparse(s) == ParseValue(s, 1).v

\* The canonical string of a query key (a JavaScript array).
KeyString(queryKey) == JSONstringify(Arr(queryKey))

\* String.prototype.startsWith and slice(0, -1).
startsWith(s, p) == Len(p) <= Len(s) /\ SubSeq(s, 1, Len(p)) = p
sliceLast(s) == SubSeq(s, 1, Len(s) - 1)

(* ------------------------------ inputs --------------------------------- *)
\* new QueryClient() without an argument: 1000 * 60 * 5 ms.
DEFAULT_STALE_TIME == 300000

\* Query keys the callers use (Spec): ['a'] and ['a', 'x'] ...
QueryKeys ==
  << <<Str(<<97>>)>>,
     <<Str(<<97>>), Str(<<120>>)>> >>

\* ... and the wider set used to exercise prefix invalidation (SpecPrefix):
\* [], ['a'], ['a','x'], ['ab'], ['b','a'], ['a"'], [1], [12], [1,2], [true],
\* [null], [[1]], [[1],2].
PrefixKeys ==
  << <<>>,
     <<Str(<<97>>)>>,
     <<Str(<<97>>), Str(<<120>>)>>,
     <<Str(<<97, 98>>)>>,
     <<Str(<<98>>), Str(<<97>>)>>,
     <<Str(<<97, 34>>)>>,
     <<Num(1)>>,
     <<Num(12)>>,
     <<Num(1), Num(2)>>,
     <<Bool(TRUE)>>,
     <<Null>>,
     <<Arr(<<Num(1)>>)>>,
     <<Arr(<<Num(1)>>), Num(2)>> >>

\* Object literals as the caller writes them, each the list of its
\* properties in source order: {a:1,b:2}, {b:2,a:1}, {2:'x',1:'y'},
\* {1:'y',2:'x'}, {a:undefined,b:1}, {b:1,a:undefined}, {'01':1,'-1':2} and
\* {'-1':2,'01':1}.
ObjectLiterals ==
  << <<Prop(<<97>>, Num(1)), Prop(<<98>>, Num(2))>>,
     <<Prop(<<98>>, Num(2)), Prop(<<97>>, Num(1))>>,
     <<Prop(<<50>>, Str(<<120>>)), Prop(<<49>>, Str(<<121>>))>>,
     <<Prop(<<49>>, Str(<<121>>)), Prop(<<50>>, Str(<<120>>))>>,
     <<Prop(<<97>>, Undef), Prop(<<98>>, Num(1))>>,
     <<Prop(<<98>>, Num(1)), Prop(<<97>>, Undef)>>,
     <<Prop(<<48, 49>>, Num(1)), Prop(<<45, 49>>, Num(2))>>,
     <<Prop(<<45, 49>>, Num(2)), Prop(<<48, 49>>, Num(1))>> >>

\* Keys with fragments that JSON does not carry over as they are: the objects
\* {a:1,b:2} and {b:2,a:1}, an array that contains itself, ['a', undefined]
\* and ['a', null].
KeyInputs ==
  << <<Obj(ObjectLiterals[1])>>,
     <<Obj(ObjectLiterals[2])>>,
     <<Cyclic>>,
     <<Str(<<97>>), Undef>>,
     <<Str(<<97>>), Null>> >>

\* The keys optionsFn of a component returns: the keys callers pass, and one
\* that cannot be serialised.
HandleKeys == QueryKeys \o << <<Cyclic>> >>

\* The keys [o] for each of the object literals o.
ObjectKeys == [i \in DOMAIN ObjectLiterals |-> <<Obj(ObjectLiterals[i])>>]

\* Values handed to setQuery.
Values == <<"v1", "v2">>

\* The argument of new QueryClient(...): absent, or a duration in ms.
ClientStaleTimes == <<undefined, Fin(0), Fin(1)>>

\* The values assigned to the static QueryClient.staleTime directly.
AssignedStaleTimes == <<Fin(0), Fin(2)>>

\* The staleTime option of a Query built by hand, and the timestamps handed to
\* its isStale: Date.now() - d for d in 0..MaxAge, or negative infinity.
QueryStaleTimes == <<undefined, Fin(0), Fin(1), POSITIVE_INFINITY>>

\* The staleTime option of a call: absent, or a duration in ms.
StaleTimeOptions == <<undefined, Fin(1), POSITIVE_INFINITY>>


(* ------------------------------- state --------------------------------- *)
VARIABLES
  queries,                \* QueryClient.#queries: canonical key -> CacheEntry
  QueryClient_staleTime,  \* static QueryClient.staleTime
  now,                    \* Date.now()
  promises,               \* promise id -> its state and settled value
  last,                   \* the operation just performed, its inputs and result
  fetched,                \* key -> promise started by fetchQuery, undisturbed since
  ensureFetches,          \* key -> queryFn runs by ensureQuery since last removal
  markedBy,               \* key -> the invalidation call that marked its current entry
  setValue,               \* key -> value of the latest setQuery, entry not replaced since
  held,                   \* the Query object a caller constructed and keeps
  constructed,            \* defaultStaleTime of each new QueryClient(...), in call order
  signals,                \* AbortSignals handed out by getAbortSignal(): whether
                          \* aborted, and the promises of the computations given it
  handle,                 \* the createQuery handle a component reads in an effect: its
                          \* key, the promise it resolves from, what it depends on
  other                   \* #queries of a second QueryClient instance

vars == <<queries, QueryClient_staleTime, now, promises, last, fetched, ensureFetches,
          markedBy, setValue, held, constructed, signals, handle, other>>

\* "no entry" / "no promise" placeholders in the record of the last call.
NoEntry == [promise |-> 0, createdAt |-> undefined, id |-> 0]
NoMark == [op |-> "none", queryKey |-> <<>>]
NoCall == [op |-> "none", queryKey |-> <<>>, key |-> <<>>, opt |-> undefined,
           staleTime |-> undefined, t0 |-> 0, pre |-> NoEntry, ret |-> 0,
           invoked |-> 0, hook |-> FALSE, first |-> 0, mark |-> NoMark,
           stale |-> FALSE, threw |-> "none", inside |-> 0, signal |-> 0,
           argKey |-> <<>>, given |-> 0]

\* A caller that holds no Query object. A held Query is kept with the key and
\* the staleTime option it was built from (queryKey, opt), the number of
\* QueryClient constructor calls made before it was built (made) and the
\* value QueryClient.staleTime had when it was built (default).
NoQuery == [query |-> [staleTime |-> undefined, key |-> <<>>], opt |-> undefined,
            made |-> 0, queryKey |-> <<>>, default |-> undefined]

\* Promise states. A queryFn promise is pending until it fulfils with Data or
\* rejects with Reason; Promise.resolve(value) is fulfilled with value.
Data == "data"
Reason == "boom"
AbortReason == "AbortError"
Pending == [state |-> "pending", value |-> "none"]
Fulfilled(value) == [state |-> "fulfilled", value |-> value]
Rejected(reason) == [state |-> "rejected", value |-> reason]

MapSet(m, k, e) == [x \in DOMAIN m \cup {k} |-> IF x = k THEN e ELSE m[x]]
MapDelete(m, k) == [x \in DOMAIN m \ {k} |-> m[x]]
MapGet(m, k, dflt) == IF k \in DOMAIN m THEN m[k] ELSE dflt

(* ------------------------------- Query --------------------------------- *)
\* new Query(options): staleTime defaults to the static value, key is serialised.
Query(options) ==
  [staleTime |-> IF options.staleTime.k = "undefined" THEN QueryClient_staleTime
                 ELSE options.staleTime,
   key |-> JSONstringify(Arr(options.queryKey))]

\* Mutant: an entry aged exactly staleTime already counts as stale (>= for >).
isStale_inclusive(query, lastUpdated, t) ==
  ~GreaterThan(query.staleTime, Minus(Fin(t), lastUpdated))

\* Mutant: one millisecond of grace (stale only from staleTime + 2 on).
isStale_offByOne(query, lastUpdated, t) ==
  GreaterThan(Minus(Fin(t - 1), lastUpdated), query.staleTime)

\* Mutant: the subtraction reversed (lastUpdated - Date.now()).
isStale_reversed(query, lastUpdated, t) ==
  /\ lastUpdated.k = "fin"
  /\ GreaterThan(Fin(lastUpdated.n - t), query.staleTime)

\* Query.isStale(lastUpdated), with Date.now() read as t.
isStale(query, lastUpdated, t) ==
  GreaterThan(Minus(Fin(t), lastUpdated), query.staleTime)

(* ----------------------------- CacheEntry ------------------------------ *)
\* new CacheEntry(promise) constructed when Date.now() = t. id names the
\* object: two entries are the same object exactly when their ids are equal.
\* An entry made around a promise of its own is named by that promise.
CacheEntry(promise, t) == [promise |-> promise, createdAt |-> Fin(t), id |-> promise]

\* Mutant: invalidation stamps the epoch instead of negative infinity.
invalidate_epoch(entry) == [entry EXCEPT !.createdAt = Fin(0)]

\* CacheEntry.invalidate()
invalidate(entry) == [entry EXCEPT !.createdAt = NEGATIVE_INFINITY]

(* ----------------------------- QueryClient ----------------------------- *)
\* The record kept of a call: its inputs (opt: the staleTime option as given,
\* staleTime: as resolved by the Query), the clock when it began (t0), the
\* entry its key had before (pre), what it returned (ret, 0 = undefined), how
\* often it ran queryFn (invoked), whether it went through hydratable (hook),
\* the promise an undisturbed earlier fetchQuery started for the key (first)
\* and the invalidation that had marked the key's entry (mark).
\* A call that ran queryFn records in addition the key queryFn was given
\* (argKey, the key parsed back from the canonical string), the AbortSignal it
\* was given (signal, 0 = undefined) and the promise a lookup of the call's own
\* key made from inside queryFn finds in the map (inside, 0 = none); threw is
\* the error a call ended with, given the signal the caller passed to fetch.
Call(op, queryKey, key, opt, st, pre, ret, invoked, hook) ==
  [op |-> op, queryKey |-> queryKey, key |-> key, opt |-> opt, staleTime |-> st,
   t0 |-> now, pre |-> pre, ret |-> ret, invoked |-> invoked, hook |-> hook,
   first |-> MapGet(fetched, key, 0), mark |-> MapGet(markedBy, key, NoMark),
   stale |-> FALSE, threw |-> "none", inside |-> 0, signal |-> 0, argKey |-> <<>>,
   given |-> 0]

\* No createQuery handle. A handle is kept with its current key, staleTime
\* option and queryFn, the promise of the entry its derivation last returned
\* (promise, 0 when it returned none), the entry object whose createdAt that
\* derivation read (dep, 0 when it read none), the abort signal the `signal`
\* derivation last made (signal, 0 when it has not run), whether `query` has
\* been replaced since that signal was made (signalStale), and whether
\* something the entry derivation depends on has changed since it ran (dirty).
\* `query` is a Query object built when it is first read, through the entry
\* derivation or through the queryKey getter, and again at the first read
\* after optionsFn has run again: built tells whether the Query for what
\* optionsFn last returned exists, and staleTime is the #staleTime that Query
\* resolved when it was built. changed is a note kept for the claims, not
\* state of the program: since the entry derivation last ran, optionsFn has
\* returned a key other than the one it had returned before, or the entry
\* under the handle's key has been invalidated.
NoHandle == [active |-> FALSE, queryKey |-> <<>>, opt |-> undefined,
             queryFn |-> "returns", built |-> FALSE, staleTime |-> undefined,
             promise |-> 0, dep |-> 0, signal |-> 0,
             signalStale |-> FALSE, dirty |-> FALSE, changed |-> FALSE]

\* createdAt is $state of the entry object: assigning it a different value
\* marks the derivations that read it on that object. after is the map once
\* the marks are set.
Notify(after) ==
  LET marks == /\ handle.active
               /\ \E k \in DOMAIN queries :
                    /\ queries[k].id = handle.dep
                    /\ after[k].createdAt # queries[k].createdAt
      underKey == /\ handle.active
                  /\ Serializable(Arr(handle.queryKey))
                  /\ \E k \in DOMAIN queries :
                       /\ k = JSONstringify(Arr(handle.queryKey))
                       /\ after[k].createdAt # queries[k].createdAt
  IN [handle EXCEPT !.dirty = @ \/ marks, !.changed = @ \/ underKey]

\* The Query the `query` derivation holds for what optionsFn last returned:
\* the one built before, or the one a read builds now (l.112), its staleTime
\* being the option, else the static default as it is at that read.
HandleQuery ==
  IF handle.built
  THEN [staleTime |-> handle.staleTime, key |-> JSONstringify(Arr(handle.queryKey))]
  ELSE Query([queryKey |-> handle.queryKey, staleTime |-> handle.opt])

\* The handle whose signal is aborted by its teardown is no longer active.
Unmounted(signal) ==
  IF handle.signal = signal THEN [handle EXCEPT !.active = FALSE, !.dirty = FALSE]
  ELSE handle

\* Mutant: a failed key serialisation that leaves an entry behind, under the
\* string "undefined".
Throw_leavesEntry(op, queryKey) ==
  /\ last' = [Call(op, queryKey, <<>>, undefined, undefined, NoEntry, 0, 0, FALSE)
              EXCEPT !.threw = "TypeError"]
  /\ queries' = MapSet(queries, <<117, 110, 100, 101, 102, 105, 110, 101, 100>>,
                       CacheEntry(0, now))
  /\ UNCHANGED <<handle, other, signals, QueryClient_staleTime, held, constructed, setValue, now,
                 promises, fetched, ensureFetches, markedBy>>

\* JSON.stringify(queryKey) throws: the call ends there, before anything else
\* of the method has run.
Throw(op, queryKey) ==
  /\ last' = [Call(op, queryKey, <<>>, undefined, undefined, NoEntry, 0, 0, FALSE)
              EXCEPT !.threw = "TypeError"]
  /\ UNCHANGED <<handle, other, signals, queries, QueryClient_staleTime, held, constructed, setValue,
                 now, promises, fetched, ensureFetches, markedBy>>

\* queryFn runs (query.fetch) before the new CacheEntry exists and before
\* Map.set: what it is handed, and what the map holds for the key meanwhile.
Started(call, query, cached, signal) ==
  [call EXCEPT !.argKey = JSONparse(query.key).a, !.signal = signal,
               !.inside = cached.promise]

\* Mutant: a throwing queryFn costs the key the entry it had.
Raise_dropsEntry(op, options, query, cached) ==
  /\ last' = [Started(Call(op, options.queryKey, query.key, options.staleTime,
                           query.staleTime, cached, 0, 1,
                           query.key \notin DOMAIN queries),
                      query, cached, 0)
              EXCEPT !.threw = "Error"]
  /\ queries' = MapDelete(queries, query.key)
  /\ UNCHANGED <<handle, other, signals, QueryClient_staleTime, held, constructed,
                 setValue, now, promises, fetched, ensureFetches, markedBy>>

\* queryFn throws instead of returning a promise: query.fetch() throws while
\* the argument of new CacheEntry(...) is evaluated, so the call ends there,
\* before the entry is built and before Map.set.
Raise(op, options, query, cached) ==
  /\ last' = [Started(Call(op, options.queryKey, query.key, options.staleTime,
                           query.staleTime, cached, 0, 1,
                           query.key \notin DOMAIN queries),
                      query, cached, 0)
              EXCEPT !.threw = "Error"]
  /\ UNCHANGED <<handle, other, signals, queries, QueryClient_staleTime, held,
                 constructed, setValue, now, promises, fetched, ensureFetches,
                 markedBy>>

\* Mutant: fetchQuery that never consults the cache.
fetchQuery_alwaysFetches(options, t) ==
  LET query == Query(options)
      has == query.key \in DOMAIN queries
      cached == MapGet(queries, query.key, NoEntry)
      promise == Len(promises) + 1
  IN /\ Len(promises) < MaxPromises
     /\ promises' = Append(promises, Pending)
     /\ now' = t
     /\ queries' = MapSet(queries, query.key, CacheEntry(promise, t))
     /\ fetched' = MapSet(fetched, query.key, promise)
     /\ markedBy' = MapDelete(markedBy, query.key)
     /\ last' = Call("fetchQuery", options.queryKey, query.key, options.staleTime,
                     query.staleTime, cached, promise, 1, ~has)
     /\ setValue' = MapDelete(setValue, query.key)
     /\ UNCHANGED <<handle, other, signals, QueryClient_staleTime, held, constructed, ensureFetches>>

\* Mutant: fetchQuery that computes again when the cached promise has rejected.
fetchQuery_retriesRejected(options, t) ==
  LET query == Query(options)
      has == query.key \in DOMAIN queries
      cached == MapGet(queries, query.key, NoEntry)
      promise == Len(promises) + 1
  IN IF /\ has
        /\ ~isStale(query, cached.createdAt, now)
        /\ promises[cached.promise].state # "rejected"
     THEN /\ last' = Call("fetchQuery", options.queryKey, query.key, options.staleTime,
                          query.staleTime, cached, cached.promise, 0, FALSE)
          /\ UNCHANGED <<handle, other, signals, queries, QueryClient_staleTime, held, constructed, setValue, now,
                         promises, fetched, ensureFetches, markedBy>>
     ELSE /\ Len(promises) < MaxPromises
          /\ promises' = Append(promises, Pending)
          /\ now' = t
          /\ queries' = MapSet(queries, query.key, CacheEntry(promise, t))
          /\ fetched' = MapSet(fetched, query.key, promise)
          /\ markedBy' = MapDelete(markedBy, query.key)
          /\ setValue' = MapDelete(setValue, query.key)
          /\ last' = Call("fetchQuery", options.queryKey, query.key, options.staleTime,
                          query.staleTime, cached, promise, 1, ~has)
          /\ UNCHANGED <<handle, other, signals, QueryClient_staleTime, held, constructed, ensureFetches>>

\* Mutant: fetchQuery that hands out a pending promise whatever its age.
fetchQuery_sharesPending(options, t) ==
  LET query == Query(options)
      has == query.key \in DOMAIN queries
      cached == MapGet(queries, query.key, NoEntry)
      promise == Len(promises) + 1
  IN IF has /\ (~isStale(query, cached.createdAt, now) \/ promises[cached.promise] = Pending)
     THEN /\ last' = Call("fetchQuery", options.queryKey, query.key, options.staleTime,
                          query.staleTime, cached, cached.promise, 0, FALSE)
          /\ UNCHANGED <<handle, other, signals, queries, QueryClient_staleTime, held, constructed, setValue, now, promises, fetched,
                         ensureFetches, markedBy>>
     ELSE /\ Len(promises) < MaxPromises
          /\ promises' = Append(promises, Pending)
          /\ now' = t
          /\ queries' = MapSet(queries, query.key, CacheEntry(promise, t))
          /\ fetched' = MapSet(fetched, query.key, promise)
          /\ markedBy' = MapDelete(markedBy, query.key)
          /\ last' = Started(Call("fetchQuery", options.queryKey, query.key, options.staleTime,
                          query.staleTime, cached, promise, 1, ~has),
                                  query, cached, 0)
          /\ setValue' = MapDelete(setValue, query.key)
          /\ UNCHANGED <<handle, other, signals, QueryClient_staleTime, held, constructed, ensureFetches>>

\* Mutant: fetchQuery that judges staleness by a duration fixed for the entry,
\* not by the staleTime of the descriptor it is called with.
fetchQuery_entryStaleTime(options, t) ==
  LET query == [Query(options) EXCEPT !.staleTime = QueryClient_staleTime]
      has == query.key \in DOMAIN queries
      cached == MapGet(queries, query.key, NoEntry)
      promise == Len(promises) + 1
  IN IF has /\ ~isStale(query, cached.createdAt, now)
     THEN /\ last' = Call("fetchQuery", options.queryKey, query.key, options.staleTime,
                          query.staleTime, cached, cached.promise, 0, FALSE)
          /\ UNCHANGED <<handle, other, signals, queries, QueryClient_staleTime, held, constructed, setValue, now, promises, fetched,
                         ensureFetches, markedBy>>
     ELSE /\ Len(promises) < MaxPromises
          /\ promises' = Append(promises, Pending)
          /\ now' = t
          /\ queries' = MapSet(queries, query.key, CacheEntry(promise, t))
          /\ fetched' = MapSet(fetched, query.key, promise)
          /\ markedBy' = MapDelete(markedBy, query.key)
          /\ last' = Started(Call("fetchQuery", options.queryKey, query.key, options.staleTime,
                          query.staleTime, cached, promise, 1, ~has),
                                  query, cached, 0)
          /\ setValue' = MapDelete(setValue, query.key)
          /\ UNCHANGED <<handle, other, signals, QueryClient_staleTime, held, constructed, ensureFetches>>

\* Mutant: fetchQuery that hands its computation an abort signal.
fetchQuery_passesSignal(options, t) ==
  LET query == Query(options)
      has == query.key \in DOMAIN queries
      cached == MapGet(queries, query.key, NoEntry)
      promise == Len(promises) + 1
  IN IF has /\ ~isStale(query, cached.createdAt, now)
     THEN /\ last' = Call("fetchQuery", options.queryKey, query.key, options.staleTime,
                          query.staleTime, cached, cached.promise, 0, FALSE)
          /\ UNCHANGED <<handle, other, signals, queries, QueryClient_staleTime, held, constructed, setValue, now, promises, fetched,
                         ensureFetches, markedBy>>
     ELSE /\ Len(promises) < MaxPromises
          /\ promises' = Append(promises, Pending)
          /\ now' = t
          /\ queries' = MapSet(queries, query.key, CacheEntry(promise, t))
          /\ fetched' = MapSet(fetched, query.key, promise)
          /\ markedBy' = MapDelete(markedBy, query.key)
          /\ last' = Started(Call("fetchQuery", options.queryKey, query.key, options.staleTime,
                          query.staleTime, cached, promise, 1, ~has),
                                  query, cached, Len(signals) + 1)
          /\ setValue' = MapDelete(setValue, query.key)
          /\ signals' = Append(signals, [aborted |-> FALSE, promises |-> {promise}])
          /\ UNCHANGED <<handle, other, QueryClient_staleTime, held, constructed, ensureFetches>>

\* fetchQuery(options): reuse a fresh entry, else run queryFn and store its promise.
\* t is the Date.now() the new CacheEntry reads, after queryFn has returned.
fetchQuery(options, t) ==
  IF ~Serializable(Arr(options.queryKey)) THEN Throw("fetchQuery", options.queryKey) ELSE
  LET query == Query(options)
      has == query.key \in DOMAIN queries
      cached == MapGet(queries, query.key, NoEntry)
      promise == Len(promises) + 1
  IN IF has /\ ~isStale(query, cached.createdAt, now)
     THEN /\ last' = Call("fetchQuery", options.queryKey, query.key, options.staleTime,
                          query.staleTime, cached, cached.promise, 0, FALSE)
          /\ UNCHANGED <<handle, other, signals, queries, QueryClient_staleTime, held, constructed, setValue, now, promises, fetched,
                         ensureFetches, markedBy>>
     ELSE IF options.queryFn = "throws" THEN Raise("fetchQuery", options, query, cached)
     ELSE /\ Len(promises) < MaxPromises
          /\ promises' = Append(promises, Pending)
          /\ now' = t
          /\ queries' = MapSet(queries, query.key, CacheEntry(promise, t))
          /\ fetched' = MapSet(fetched, query.key, promise)
          /\ markedBy' = MapDelete(markedBy, query.key)
          /\ last' = Started(Call("fetchQuery", options.queryKey, query.key, options.staleTime,
                          query.staleTime, cached, promise, 1, ~has),
                                  query, cached, 0)
          /\ setValue' = MapDelete(setValue, query.key)
          /\ UNCHANGED <<handle, other, signals, QueryClient_staleTime, held, constructed, ensureFetches>>

\* Mutant: ensureQuery that refreshes a stale entry, as fetchQuery does.
ensureQuery_checksStale(options, t) ==
  LET query == Query(options)
      has == query.key \in DOMAIN queries
      cached == MapGet(queries, query.key, NoEntry)
      promise == Len(promises) + 1
  IN IF has /\ ~isStale(query, cached.createdAt, now)
     THEN /\ last' = Call("ensureQuery", options.queryKey, query.key, options.staleTime,
                          query.staleTime, cached, queries[query.key].promise, 0, FALSE)
          /\ UNCHANGED <<handle, other, signals, queries, QueryClient_staleTime, held, constructed, setValue, now, promises, fetched,
                         ensureFetches, markedBy>>
     ELSE /\ Len(promises) < MaxPromises
          /\ promises' = Append(promises, Pending)
          /\ now' = t
          /\ queries' = MapSet(queries, query.key, CacheEntry(promise, t))
          /\ ensureFetches' =
               MapSet(ensureFetches, query.key, MapGet(ensureFetches, query.key, 0) + 1)
          /\ last' = Call("ensureQuery", options.queryKey, query.key, options.staleTime,
                          query.staleTime, cached, promise, 1, ~has)
          /\ setValue' = MapDelete(setValue, query.key)
          /\ UNCHANGED <<handle, other, signals, QueryClient_staleTime, held, constructed, fetched, markedBy>>

\* Mutant: ensureQuery that restamps the entry it returns.
ensureQuery_restamps(options, t) ==
  LET query == Query(options)
      has == query.key \in DOMAIN queries
      cached == MapGet(queries, query.key, NoEntry)
      promise == Len(promises) + 1
  IN IF has
     THEN /\ last' = Call("ensureQuery", options.queryKey, query.key, options.staleTime,
                          query.staleTime, cached, queries[query.key].promise, 0, FALSE)
          /\ queries' = [queries EXCEPT ![query.key].createdAt = Fin(now)]
          /\ UNCHANGED <<handle, other, signals, QueryClient_staleTime, held, constructed, setValue, now,
                         promises, fetched, ensureFetches, markedBy>>
     ELSE /\ Len(promises) < MaxPromises
          /\ promises' = Append(promises, Pending)
          /\ now' = t
          /\ queries' = MapSet(queries, query.key, CacheEntry(promise, t))
          /\ ensureFetches' =
               MapSet(ensureFetches, query.key, MapGet(ensureFetches, query.key, 0) + 1)
          /\ last' = Started(Call("ensureQuery", options.queryKey, query.key, options.staleTime,
                          query.staleTime, cached, promise, 1, TRUE),
                                  query, cached, 0)
          /\ setValue' = MapDelete(setValue, query.key)
          /\ UNCHANGED <<handle, other, signals, QueryClient_staleTime, held, constructed, fetched, markedBy>>

\* ensureQuery(options): return the entry if there is one, else create it.
\* t is the Date.now() the new CacheEntry reads, after queryFn has returned.
ensureQuery(options, t) ==
  IF ~Serializable(Arr(options.queryKey)) THEN Throw("ensureQuery", options.queryKey) ELSE
  LET query == Query(options)
      has == query.key \in DOMAIN queries
      cached == MapGet(queries, query.key, NoEntry)
      promise == Len(promises) + 1
  IN IF has
     THEN /\ last' = Call("ensureQuery", options.queryKey, query.key, options.staleTime,
                          query.staleTime, cached, queries[query.key].promise, 0, FALSE)
          /\ UNCHANGED <<handle, other, signals, queries, QueryClient_staleTime, held, constructed, setValue, now, promises, fetched,
                         ensureFetches, markedBy>>
     ELSE IF options.queryFn = "throws" THEN Raise("ensureQuery", options, query, cached)
     ELSE /\ Len(promises) < MaxPromises
          /\ promises' = Append(promises, Pending)
          /\ now' = t
          /\ queries' = MapSet(queries, query.key, CacheEntry(promise, t))
          /\ ensureFetches' =
               MapSet(ensureFetches, query.key, MapGet(ensureFetches, query.key, 0) + 1)
          /\ last' = Started(Call("ensureQuery", options.queryKey, query.key, options.staleTime,
                          query.staleTime, cached, promise, 1, TRUE),
                                  query, cached, 0)
          /\ setValue' = MapDelete(setValue, query.key)
          /\ UNCHANGED <<handle, other, signals, QueryClient_staleTime, held, constructed, fetched, markedBy>>

\* The value argument of setQuery: a plain value, or a promise the caller
\* holds (setQuery<T>(queryKey, value: T) accepts either).
Plain(v) == [promise |-> 0, v |-> v]
Thenable(p) == [promise |-> p, v |-> "none"]
IsPromise(value) == value.promise # 0

\* Promise.resolve(value): the value itself when it is a promise, otherwise
\* a new promise fulfilled with the value.
PromiseResolve(value) ==
  IF IsPromise(value) THEN value.promise ELSE Len(promises) + 1

\* The name of a CacheEntry made around a promise that exists already: the
\* first negative number that names no entry of either map and not the entry
\* a handle depends on.
FreshId ==
  LET used == {queries[k].id : k \in DOMAIN queries}
              \cup {other[k].id : k \in DOMAIN other} \cup {handle.dep}
  IN 0 - (CHOOSE n \in 1..(Cardinality(used) + 1) :
            /\ (0 - n) \notin used
            /\ \A m \in 1..(n - 1) : (0 - m) \in used)

\* new CacheEntry(Promise.resolve(value)) at Date.now() = t.
ResolvedEntry(value, t) ==
  IF IsPromise(value) THEN [CacheEntry(PromiseResolve(value), t) EXCEPT !.id = FreshId]
  ELSE CacheEntry(PromiseResolve(value), t)

\* Mutant: setQuery that keeps the createdAt of an entry the key already has.
setQuery_keepsCreatedAt(queryKey, value) ==
  LET key == JSONstringify(Arr(queryKey))
      promise == Len(promises) + 1
  IN /\ Len(promises) < MaxPromises
     /\ promises' = Append(promises, Fulfilled(value.v))
     /\ queries' = IF key \in DOMAIN queries
                   THEN [queries EXCEPT ![key].promise = promise]
                   ELSE MapSet(queries, key, CacheEntry(promise, now))
     /\ fetched' = MapDelete(fetched, key)
     /\ markedBy' = MapDelete(markedBy, key)
     /\ setValue' = MapSet(setValue, key, value.v)
     /\ last' = Call("setQuery", queryKey, key, undefined, undefined,
                     MapGet(queries, key, NoEntry), 0, 0, FALSE)
     /\ UNCHANGED <<handle, other, signals, QueryClient_staleTime, held, constructed, now, ensureFetches>>

\* Mutant: setQuery that keeps the promise of an entry the key already has.
setQuery_keepsExisting(queryKey, value) ==
  LET key == JSONstringify(Arr(queryKey))
      promise == Len(promises) + 1
  IN /\ Len(promises) < MaxPromises
     /\ promises' = Append(promises, Fulfilled(value.v))
     /\ queries' = IF key \in DOMAIN queries
                   THEN [queries EXCEPT ![key].createdAt = Fin(now)]
                   ELSE MapSet(queries, key, CacheEntry(promise, now))
     /\ fetched' = MapDelete(fetched, key)
     /\ markedBy' = MapDelete(markedBy, key)
     /\ setValue' = MapSet(setValue, key, value.v)
     /\ last' = Call("setQuery", queryKey, key, undefined, undefined,
                     MapGet(queries, key, NoEntry), 0, 0, FALSE)
     /\ UNCHANGED <<handle, other, signals, QueryClient_staleTime, held, constructed, now, ensureFetches>>

\* setQuery(queryKey, value): store Promise.resolve(value) under the key.
setQuery(queryKey, value) ==
  IF ~Serializable(Arr(queryKey)) THEN Throw("setQuery", queryKey) ELSE
  LET key == JSONstringify(Arr(queryKey))
  IN /\ IsPromise(value) => value.promise \in DOMAIN promises
     /\ ~IsPromise(value) => Len(promises) < MaxPromises
     /\ promises' = IF IsPromise(value) THEN promises
                    ELSE Append(promises, Fulfilled(value.v))
     /\ queries' = MapSet(queries, key, ResolvedEntry(value, now))
     /\ fetched' = MapDelete(fetched, key)
     /\ markedBy' = MapDelete(markedBy, key)
     /\ last' = Call("setQuery", queryKey, key, undefined, undefined,
                     MapGet(queries, key, NoEntry), 0, 0, FALSE)
     /\ setValue' = IF IsPromise(value) THEN MapDelete(setValue, key)
                    ELSE MapSet(setValue, key, value.v)
     /\ UNCHANGED <<handle, other, signals, QueryClient_staleTime, held, constructed, now, ensureFetches>>

\* Mutant: removeQuery that drops every entry, as clear does.
removeQuery_dropsAll(options) ==
  LET query == Query(options)
  IN /\ queries' = <<>>
     /\ fetched' = <<>>
     /\ ensureFetches' = <<>>
     /\ markedBy' = <<>>
     /\ setValue' = <<>>
     /\ last' = Call("removeQuery", options.queryKey, query.key, options.staleTime,
                     query.staleTime, MapGet(queries, query.key, NoEntry), 0, 0, FALSE)
     /\ UNCHANGED <<handle, other, signals, QueryClient_staleTime, held, constructed, now, promises>>

\* removeQuery(query): delete the entry of the query's key.
removeQuery(options) ==
  LET query == Query(options)
  IN /\ queries' = MapDelete(queries, query.key)
     /\ fetched' = MapDelete(fetched, query.key)
     /\ ensureFetches' = MapDelete(ensureFetches, query.key)
     /\ markedBy' = MapDelete(markedBy, query.key)
     /\ last' = Call("removeQuery", options.queryKey, query.key, options.staleTime,
                     query.staleTime, MapGet(queries, query.key, NoEntry), 0, 0, FALSE)
     /\ setValue' = MapDelete(setValue, query.key)
     /\ UNCHANGED <<handle, other, signals, QueryClient_staleTime, held, constructed, now, promises>>

\* Mutant: clear that keeps the entries whose promise is still pending.
clear_keepsPending ==
  /\ queries' = [k \in {x \in DOMAIN queries : promises[queries[x].promise] = Pending}
                   |-> queries[k]]
  /\ fetched' = <<>>
  /\ ensureFetches' = <<>>
  /\ markedBy' = <<>>
  /\ setValue' = <<>>
  /\ last' = Call("clear", <<>>, <<>>, undefined, undefined, NoEntry, 0, 0, FALSE)
  /\ UNCHANGED <<handle, other, signals, QueryClient_staleTime, held, constructed, now, promises>>

\* Mutant: clear that empties the map of every client, as a static map would.
clear_everyClient ==
  /\ queries' = <<>>
  /\ other' = <<>>
  /\ fetched' = <<>>
  /\ ensureFetches' = <<>>
  /\ markedBy' = <<>>
  /\ last' = Call("clear", <<>>, <<>>, undefined, undefined, NoEntry, 0, 0, FALSE)
  /\ setValue' = <<>>
  /\ UNCHANGED <<handle, signals, QueryClient_staleTime, held, constructed, now, promises>>

\* clear(): drop every entry.
clear ==
  /\ queries' = <<>>
  /\ fetched' = <<>>
  /\ ensureFetches' = <<>>
  /\ markedBy' = <<>>
  /\ last' = Call("clear", <<>>, <<>>, undefined, undefined, NoEntry, 0, 0, FALSE)
  /\ setValue' = <<>>
  /\ UNCHANGED <<handle, other, signals, QueryClient_staleTime, held, constructed, now, promises>>

\* Mutant: getQuery that renews the createdAt of the entry it reads.
getQuery_touches(queryKey) ==
  LET key == JSONstringify(Arr(queryKey))
      cached == MapGet(queries, key, NoEntry)
  IN /\ last' = Call("getQuery", queryKey, key, undefined, undefined, cached,
                     cached.promise, 0, FALSE)
     /\ queries' = IF key \in DOMAIN queries
                   THEN [queries EXCEPT ![key].createdAt = Fin(now)]
                   ELSE queries
     /\ UNCHANGED <<handle, other, signals, QueryClient_staleTime, held, constructed, setValue, now, promises,
                    fetched, ensureFetches, markedBy>>

\* getQuery(queryKey): the stored promise, or undefined.
getQuery(queryKey) ==
  IF ~Serializable(Arr(queryKey)) THEN Throw("getQuery", queryKey) ELSE
  LET key == JSONstringify(Arr(queryKey))
      cached == MapGet(queries, key, NoEntry)
  IN /\ last' = Call("getQuery", queryKey, key, undefined, undefined, cached,
                     cached.promise, 0, FALSE)
     /\ UNCHANGED <<handle, other, signals, queries, QueryClient_staleTime, held, constructed, setValue, now, promises, fetched,
                    ensureFetches, markedBy>>

\* The test invalidateQueries applies to each stored key.
matches(key, queryKey) == startsWith(key, sliceLast(JSONstringify(Arr(queryKey))))

\* Mutant: exact invalidation that matches by prefix, as invalidateQueries does.
invalidateQuery_prefix(queryKey) ==
  LET key == JSONstringify(Arr(queryKey))
  IN /\ queries' = [k \in DOMAIN queries |->
                      IF matches(k, queryKey) THEN invalidate(queries[k]) ELSE queries[k]]
     /\ fetched' = MapDelete(fetched, key)
     /\ markedBy' = IF key \in DOMAIN queries
                    THEN MapSet(markedBy, key, [op |-> "invalidateQuery", queryKey |-> queryKey])
                    ELSE markedBy
     /\ last' = Call("invalidateQuery", queryKey, key, undefined, undefined,
                     MapGet(queries, key, NoEntry), 0, 0, FALSE)
     /\ handle' = Notify(queries')
     /\ UNCHANGED <<other, signals, QueryClient_staleTime, held, constructed, setValue, now, promises, ensureFetches>>

\* invalidateQuery(queryKey): mark the entry of exactly this key.
invalidateQuery(queryKey) ==
  IF ~Serializable(Arr(queryKey)) THEN Throw("invalidateQuery", queryKey) ELSE
  LET key == JSONstringify(Arr(queryKey))
  IN /\ queries' = IF key \in DOMAIN queries
                   THEN [queries EXCEPT ![key] = invalidate(queries[key])]
                   ELSE queries
     /\ fetched' = MapDelete(fetched, key)
     /\ markedBy' = IF key \in DOMAIN queries
                    THEN MapSet(markedBy, key, [op |-> "invalidateQuery", queryKey |-> queryKey])
                    ELSE markedBy
     /\ last' = Call("invalidateQuery", queryKey, key, undefined, undefined,
                     MapGet(queries, key, NoEntry), 0, 0, FALSE)
     /\ handle' = Notify(queries')
     /\ UNCHANGED <<other, signals, QueryClient_staleTime, held, constructed, setValue, now, promises, ensureFetches>>

\* invalidateQueries(queryKey): mark every entry whose key string starts with
\* the serialised prefix less its closing bracket.
invalidateQueries(queryKey) ==
  IF ~Serializable(Arr(queryKey)) THEN Throw("invalidateQueries", queryKey) ELSE
  /\ queries' = [key \in DOMAIN queries |->
                   IF matches(key, queryKey) THEN invalidate(queries[key])
                   ELSE queries[key]]
  /\ fetched' = [key \in {k \in DOMAIN fetched : ~matches(k, queryKey)} |-> fetched[key]]
  /\ markedBy' = [key \in DOMAIN markedBy \cup {k \in DOMAIN queries : matches(k, queryKey)}
                    |-> IF matches(key, queryKey)
                        THEN [op |-> "invalidateQueries", queryKey |-> queryKey]
                        ELSE markedBy[key]]
  /\ last' = Call("invalidateQueries", queryKey, sliceLast(JSONstringify(Arr(queryKey))),
                  undefined, undefined, NoEntry, 0, 0, FALSE)
  /\ handle' = Notify(queries')
  /\ UNCHANGED <<other, signals, QueryClient_staleTime, held, constructed, setValue, now, promises, ensureFetches>>

\* Mutant: createQuery that goes through hydratable on every computation.
createQuery_alwaysHydratable(options, t) ==
  LET query == Query(options)
      has == query.key \in DOMAIN queries
      cached == MapGet(queries, query.key, NoEntry)
      promise == Len(promises) + 1
  IN IF has /\ ~isStale(query, cached.createdAt, now)
     THEN /\ last' = Call("createQuery", options.queryKey, query.key, options.staleTime,
                          query.staleTime, cached, cached.promise, 0, FALSE)
          /\ UNCHANGED <<handle, other, signals, queries, QueryClient_staleTime, held, constructed, setValue, now,
                         promises, fetched, ensureFetches, markedBy>>
     ELSE /\ Len(promises) < MaxPromises
          /\ promises' = Append(promises, Pending)
          /\ now' = t
          /\ queries' = MapSet(queries, query.key, CacheEntry(promise, t))
          /\ fetched' = MapDelete(fetched, query.key)
          /\ markedBy' = MapDelete(markedBy, query.key)
          /\ setValue' = MapDelete(setValue, query.key)
          /\ last' = Call("createQuery", options.queryKey, query.key, options.staleTime,
                          query.staleTime, cached, promise, 1, TRUE)
          /\ signals' = Append(signals, [aborted |-> FALSE, promises |-> {promise}])
          /\ UNCHANGED <<handle, other, QueryClient_staleTime, held, constructed, ensureFetches>>

\* Mutant: a handle that never looks at the shared map before computing.
createQuery_ownCache(options, t) ==
  LET query == Query(options)
      has == query.key \in DOMAIN queries
      cached == MapGet(queries, query.key, NoEntry)
      promise == Len(promises) + 1
  IN /\ Len(promises) < MaxPromises
     /\ promises' = Append(promises, Pending)
     /\ now' = t
     /\ queries' = MapSet(queries, query.key, CacheEntry(promise, t))
     /\ fetched' = MapDelete(fetched, query.key)
     /\ markedBy' = MapDelete(markedBy, query.key)
     /\ setValue' = MapDelete(setValue, query.key)
     /\ last' = Started(Call("createQuery", options.queryKey, query.key, options.staleTime,
                     query.staleTime, cached, promise, 1, ~has),
                             query, cached, Len(signals) + 1)
     /\ signals' = Append(signals, [aborted |-> FALSE, promises |-> {promise}])
     /\ UNCHANGED <<handle, other, QueryClient_staleTime, held, constructed, ensureFetches>>

\* createQuery(optionsFn), read once through its `then`: the entry derivation
\* reuses a cached entry that is not stale, else asks for an abort signal and
\* runs queryFn with it (through hydratable only when the key has no entry)
\* and stores the new entry; a queryFn that throws ends the read before the
\* entry is built, the map left as it was.
\* t is the Date.now() the new CacheEntry reads, after queryFn has returned.
\* This handle is read outside any effect, so nothing re-reads it later.
createQuery(options, t) ==
  IF ~Serializable(Arr(options.queryKey)) THEN Throw("createQuery", options.queryKey) ELSE
  LET query == Query(options)
      has == query.key \in DOMAIN queries
      cached == MapGet(queries, query.key, NoEntry)
      promise == Len(promises) + 1
  IN IF has /\ ~isStale(query, cached.createdAt, now)
     THEN /\ last' = Call("createQuery", options.queryKey, query.key, options.staleTime,
                          query.staleTime, cached, cached.promise, 0, FALSE)
          /\ UNCHANGED <<handle, other, signals, queries, QueryClient_staleTime, held, constructed, setValue, now,
                         promises, fetched, ensureFetches, markedBy>>
     ELSE IF options.queryFn = "throws"
     THEN /\ Len(signals) < MaxThrown
          /\ last' = [Started(Call("createQuery", options.queryKey, query.key,
                                   options.staleTime, query.staleTime, cached,
                                   0, 1, ~has),
                              query, cached, Len(signals) + 1)
                      EXCEPT !.threw = "Error"]
          /\ signals' = Append(signals, [aborted |-> FALSE, promises |-> {}])
          /\ UNCHANGED <<handle, other, queries, QueryClient_staleTime, held,
                         constructed, setValue, now, promises, fetched,
                         ensureFetches, markedBy>>
     ELSE /\ Len(promises) < MaxPromises
          /\ promises' = Append(promises, Pending)
          /\ now' = t
          /\ queries' = MapSet(queries, query.key, CacheEntry(promise, t))
          /\ fetched' = MapDelete(fetched, query.key)
          /\ markedBy' = MapDelete(markedBy, query.key)
          /\ setValue' = MapDelete(setValue, query.key)
          /\ last' = Started(Call("createQuery", options.queryKey, query.key, options.staleTime,
                          query.staleTime, cached, promise, 1, ~has),
                                  query, cached, Len(signals) + 1)
          /\ signals' = Append(signals, [aborted |-> FALSE, promises |-> {promise}])
          /\ UNCHANGED <<handle, other, QueryClient_staleTime, held, constructed, ensureFetches>>

(* ----------------- A createQuery handle read in an effect --------------- *)
\* A component calls createQuery(optionsFn) and reads the handle in its
\* template. Creating the handle evaluates nothing: query, signal and entry
\* are $derived and run when first read, so a key that cannot be serialised
\* is not noticed yet.
mount(options) ==
  /\ ~handle.active
  /\ handle' = [NoHandle EXCEPT !.active = TRUE, !.queryKey = options.queryKey,
                                !.opt = options.staleTime,
                                !.queryFn = options.queryFn, !.dirty = TRUE]
  /\ last' = [NoCall EXCEPT !.op = "mount", !.queryKey = options.queryKey]
  /\ UNCHANGED <<other, signals, queries, QueryClient_staleTime, held, constructed,
                 setValue, now, promises, fetched, ensureFetches, markedBy>>

\* The effect reading the handle runs, for the first time or because
\* something it depends on changed: `entry` is evaluated for the current key.
\* `query` is built now when it has not been for this key (its staleTime is
\* the option, else the static default as it is now); otherwise it is the
\* Query built before, with the staleTime it resolved then.
\* A cached entry that is not stale is returned, and its createdAt has been
\* read. Otherwise `signal` is read: it is evaluated when it has not run yet
\* or `query` has been replaced since (getAbortSignal() then aborts the
\* signal it made before and makes a new one), and queryFn runs with it. The
\* new entry is stored, of which nothing was read; the createdAt read was that
\* of the entry found, if any. A queryFn that throws ends the derivation
\* before the entry is built: the map is left as it was. A key that cannot
\* be serialised makes new Query(...) throw when `query` is built, before
\* anything else of the derivation has run. Whether Svelte then
\* runs the derivation again at the next read or keeps the error until a
\* dependency changes depends on its version. t is the Date.now() of the new
\* entry.
derive(t) ==
  LET options == [queryKey |-> handle.queryKey, staleTime |-> handle.opt]
      query == HandleQuery
      has == query.key \in DOMAIN queries
      cached == MapGet(queries, query.key, NoEntry)
      promise == Len(promises) + 1
      kept == handle.signal # 0 /\ ~handle.signalStale
      signal == IF kept THEN handle.signal ELSE Len(signals) + 1
      aborting == [i \in DOMAIN signals |->
                     IF i = handle.signal THEN [signals[i] EXCEPT !.aborted = TRUE]
                     ELSE signals[i]]
  IN /\ handle.active
     /\ handle.dirty
     /\ IF ~handle.built /\ ~Serializable(Arr(handle.queryKey))
        THEN /\ \E again \in BOOLEAN :
                  handle' = [handle EXCEPT !.promise = 0, !.dep = 0,
                                           !.dirty = again, !.changed = FALSE]
             /\ last' = [Call("derive", handle.queryKey, <<>>, handle.opt, undefined,
                              NoEntry, 0, 0, FALSE)
                         EXCEPT !.threw = "TypeError"]
             /\ UNCHANGED <<other, signals, queries, QueryClient_staleTime, held,
                            constructed, setValue, now, promises, fetched,
                            ensureFetches, markedBy>>
        ELSE IF has /\ ~isStale(query, cached.createdAt, now)
        THEN /\ handle' = [handle EXCEPT !.built = TRUE,
                                         !.staleTime = query.staleTime,
                                         !.promise = cached.promise,
                                         !.dep = cached.id, !.dirty = FALSE,
                                         !.changed = FALSE]
             /\ last' = Call("derive", options.queryKey, query.key, options.staleTime,
                             query.staleTime, cached, cached.promise, 0, FALSE)
             /\ UNCHANGED <<other, signals, queries, QueryClient_staleTime, held,
                            constructed, setValue, now, promises, fetched,
                            ensureFetches, markedBy>>
        ELSE IF handle.queryFn = "throws"
        THEN /\ kept \/ Len(signals) < MaxThrown
             /\ signals' = IF kept THEN signals
                           ELSE Append(aborting, [aborted |-> FALSE, promises |-> {}])
             /\ \E again \in BOOLEAN :
                  handle' = [handle EXCEPT !.built = TRUE,
                                           !.staleTime = query.staleTime,
                                           !.promise = 0, !.dep = cached.id,
                                           !.signal = signal, !.signalStale = FALSE,
                                           !.dirty = again, !.changed = FALSE]
             /\ last' = [Started(Call("derive", options.queryKey, query.key,
                                      options.staleTime, query.staleTime, cached,
                                      0, 1, ~has),
                                 query, cached, signal)
                         EXCEPT !.threw = "Error"]
             /\ UNCHANGED <<other, queries, QueryClient_staleTime, held, constructed,
                            setValue, now, promises, fetched, ensureFetches, markedBy>>
        ELSE /\ Len(promises) < MaxPromises
             /\ promises' = Append(promises, Pending)
             /\ now' = t
             /\ queries' = MapSet(queries, query.key, CacheEntry(promise, t))
             /\ fetched' = MapDelete(fetched, query.key)
             /\ markedBy' = MapDelete(markedBy, query.key)
             /\ setValue' = MapDelete(setValue, query.key)
             /\ signals' =
                  IF kept
                  THEN [signals EXCEPT ![signal].promises = @ \cup {promise}]
                  ELSE Append(aborting, [aborted |-> FALSE, promises |-> {promise}])
             /\ handle' = [handle EXCEPT !.built = TRUE,
                                         !.staleTime = query.staleTime,
                                         !.promise = promise, !.dep = cached.id,
                                         !.signal = signal, !.signalStale = FALSE,
                                         !.dirty = FALSE, !.changed = FALSE]
             /\ last' = Started(Call("derive", options.queryKey, query.key,
                                     options.staleTime, query.staleTime, cached,
                                     promise, 1, ~has),
                                query, cached, signal)
             /\ UNCHANGED <<other, QueryClient_staleTime, held, constructed,
                            ensureFetches>>

\* Mutant: a run of optionsFn that drops the entry of the key the handle had.
optionsFn_evictsPrevious(options) ==
  /\ handle.active
  /\ handle' = [handle EXCEPT !.queryKey = options.queryKey,
                              !.opt = options.staleTime,
                              !.queryFn = options.queryFn, !.dirty = TRUE,
                              !.built = FALSE, !.staleTime = undefined,
                              !.signalStale = (handle.signal # 0),
                              !.changed = @ \/ (options.queryKey # handle.queryKey)]
  /\ queries' = IF Serializable(Arr(handle.queryKey))
                THEN MapDelete(queries, KeyString(handle.queryKey)) ELSE queries
  /\ last' = [NoCall EXCEPT !.op = "optionsFn", !.queryKey = options.queryKey,
                            !.opt = options.staleTime]
  /\ UNCHANGED <<other, signals, QueryClient_staleTime, held, constructed,
                 setValue, now, promises, fetched, ensureFetches, markedBy>>

\* Reactive state that optionsFn reads has changed: optionsFn runs again and
\* returns options (l.111). Their queryKey is either the array object the
\* run before returned (a key held in a variable or a prop, as in
\* TestQuery.svelte l.15) or a new array (a key written as an array literal
\* inside optionsFn, as in the README), be its content the same as before or
\* not. With the same array the queryKey derivation has the value it had:
\* `query` stays, with the staleTime and queryFn it was built from, and
\* nothing is to run again. With a new array `query` is to be built again,
\* from these options, at its next read (l.112), and the derivations that
\* read it are to run again.
optionsFn(options) ==
  /\ handle.active
  /\ \E sameArray \in BOOLEAN :
       /\ sameArray => (options.queryKey = handle.queryKey)
       /\ handle' = IF sameArray THEN handle
                    ELSE [handle EXCEPT !.queryKey = options.queryKey,
                                        !.opt = options.staleTime,
                                        !.queryFn = options.queryFn, !.dirty = TRUE,
                                        !.built = FALSE, !.staleTime = undefined,
                                        !.signalStale = (handle.signal # 0),
                                        !.changed =
                                           @ \/ (options.queryKey # handle.queryKey)]
  /\ last' = [NoCall EXCEPT !.op = "optionsFn", !.queryKey = options.queryKey,
                            !.opt = options.staleTime]
  /\ UNCHANGED <<other, signals, queries, QueryClient_staleTime, held, constructed,
                 setValue, now, promises, fetched, ensureFetches, markedBy>>

\* handle.queryKey is read (l.124-126): `query` is read, and built when it is
\* due, and its key is parsed back. Nothing of the entry derivation runs.
QueryResult_queryKey ==
  /\ handle.active
  /\ IF ~handle.built /\ ~Serializable(Arr(handle.queryKey))
     THEN /\ handle' = handle
          /\ last' = [Call("handle.queryKey", handle.queryKey, <<>>, handle.opt,
                           undefined, NoEntry, 0, 0, FALSE)
                      EXCEPT !.threw = "TypeError"]
     ELSE LET query == HandleQuery
          IN /\ handle' = [handle EXCEPT !.built = TRUE,
                                         !.staleTime = query.staleTime]
             /\ last' = [Call("handle.queryKey", handle.queryKey, query.key,
                              handle.opt, query.staleTime, NoEntry, 0, 0, FALSE)
                         EXCEPT !.argKey = JSONparse(query.key).a]
  /\ UNCHANGED <<other, signals, queries, QueryClient_staleTime, held, constructed,
                 setValue, now, promises, fetched, ensureFetches, markedBy>>

\* The component is destroyed: its effect and deriveds are gone. The signal
\* the handle had asked for comes from Svelte's getAbortSignal(); nothing in
\* the library aborts it, and whether the runtime does so at destruction is
\* not settled by the repository, so either may happen.
unmount ==
  /\ handle.active
  /\ handle' = NoHandle
  /\ \E aborts \in BOOLEAN :
       signals' = [i \in DOMAIN signals |->
                     IF i = handle.signal /\ aborts
                     THEN [signals[i] EXCEPT !.aborted = TRUE]
                     ELSE signals[i]]
  /\ last' = [NoCall EXCEPT !.op = "unmount", !.signal = handle.signal]
  /\ UNCHANGED <<other, queries, QueryClient_staleTime, held, constructed, setValue,
                 now, promises, fetched, ensureFetches, markedBy>>

(* ------------------ Query objects and further clients ------------------ *)
\* const q = new Query(options), kept by the caller.
newQuery(options) ==
  IF ~Serializable(Arr(options.queryKey)) THEN Throw("newQuery", options.queryKey) ELSE
  LET query == Query(options)
  IN /\ held' = [query |-> query, opt |-> options.staleTime, made |-> Len(constructed),
                  queryKey |-> options.queryKey, default |-> QueryClient_staleTime]
     /\ last' = Call("newQuery", options.queryKey, query.key, options.staleTime,
                     query.staleTime, NoEntry, 0, 0, FALSE)
     /\ UNCHANGED <<handle, other, signals, queries, QueryClient_staleTime, constructed, setValue, now, promises,
                    fetched, ensureFetches, markedBy>>

\* q.queryKey on the held Query: the canonical string parsed back.
Query_queryKey ==
  /\ held # NoQuery
  /\ last' = [Call("queryKey", held.queryKey, held.query.key, held.opt,
                   held.query.staleTime, NoEntry, 0, 0, FALSE)
              EXCEPT !.argKey = JSONparse(held.query.key).a]
  /\ UNCHANGED <<handle, other, signals, queries, QueryClient_staleTime, held, constructed, setValue, now,
                 promises, fetched, ensureFetches, markedBy>>

\* Mutant: fetch that calls queryFn without the signal.
Query_fetch_dropsSignal(signal) ==
  LET promise == Len(promises) + 1
  IN /\ held # NoQuery
     /\ Len(promises) < MaxPromises
     /\ signal \in 0..(Len(signals) + 1)
     /\ promises' = Append(promises, Pending)
     /\ signals' = IF signal = Len(signals) + 1
                   THEN Append(signals, [aborted |-> FALSE, promises |-> {}])
                   ELSE signals
     /\ last' = [Call("fetch", held.queryKey, held.query.key, held.opt,
                      held.query.staleTime, NoEntry, promise, 1, FALSE)
                 EXCEPT !.argKey = JSONparse(held.query.key).a, !.signal = 0,
                        !.given = signal]
     /\ UNCHANGED <<handle, other, queries, QueryClient_staleTime, held, constructed,
                    setValue, now, fetched, ensureFetches, markedBy>>

\* q.fetch(signal) on the held Query: queryFn({ signal, queryKey: this.queryKey }),
\* its promise returned as is. signal is 0 (undefined), a signal handed out
\* before, or the signal of a new AbortController.
Query_fetch(signal) ==
  LET promise == Len(promises) + 1
  IN /\ held # NoQuery
     /\ Len(promises) < MaxPromises
     /\ signal \in 0..(Len(signals) + 1)
     /\ promises' = Append(promises, Pending)
     /\ signals' = IF signal = 0 THEN signals
                   ELSE IF signal = Len(signals) + 1
                   THEN Append(signals, [aborted |-> FALSE, promises |-> {promise}])
                   ELSE [signals EXCEPT ![signal].promises = @ \cup {promise}]
     /\ last' = [Call("fetch", held.queryKey, held.query.key, held.opt,
                      held.query.staleTime, NoEntry, promise, 1, FALSE)
                 EXCEPT !.argKey = JSONparse(held.query.key).a, !.signal = signal,
                        !.given = signal]
     /\ UNCHANGED <<handle, other, queries, QueryClient_staleTime, held, constructed,
                    setValue, now, fetched, ensureFetches, markedBy>>

\* Mutant: the held Query reads the static default when isStale is called.
Query_isStale_lateDefault(lastUpdated) ==
  LET query == [held.query EXCEPT !.staleTime =
                  IF held.opt.k = "undefined" THEN QueryClient_staleTime ELSE held.opt]
  IN /\ held # NoQuery
     /\ last' = [Call("isStale", <<>>, query.key, held.opt, query.staleTime,
                      [promise |-> 0, createdAt |-> lastUpdated, id |-> 0], 0, 0, FALSE)
                 EXCEPT !.stale = isStale(query, lastUpdated, now)]
     /\ UNCHANGED <<handle, other, signals, queries, QueryClient_staleTime, held, constructed, setValue, now,
                    promises, fetched, ensureFetches, markedBy>>

\* q.isStale(lastUpdated) on the held Query.
Query_isStale(lastUpdated) ==
  /\ held # NoQuery
  /\ last' = [Call("isStale", <<>>, held.query.key, held.opt, held.query.staleTime,
                   [promise |-> 0, createdAt |-> lastUpdated, id |-> 0], 0, 0, FALSE)
              EXCEPT !.stale = isStale(held.query, lastUpdated, now)]
  /\ UNCHANGED <<handle, other, signals, queries, QueryClient_staleTime, held, constructed, setValue, now,
                 promises, fetched, ensureFetches, markedBy>>

\* Mutant: a constructor that keeps the default to its own instance.
newQueryClient_perInstance(defaultStaleTime) ==
  /\ Len(constructed) < MaxClients
  /\ constructed' = Append(constructed,
                            IF defaultStaleTime.k = "undefined"
                            THEN Fin(DEFAULT_STALE_TIME) ELSE defaultStaleTime)
  /\ last' = Call("newQueryClient", <<>>, <<>>, defaultStaleTime, undefined, NoEntry,
                  0, 0, FALSE)
  /\ UNCHANGED <<handle, other, signals, queries, QueryClient_staleTime, held, setValue, now, promises, fetched,
                 ensureFetches, markedBy>>

\* new QueryClient(defaultStaleTime) after the first: the new instance has a
\* map of its own, and the static default is overwritten.
newQueryClient(defaultStaleTime) ==
  LET staleTime == IF defaultStaleTime.k = "undefined"
                   THEN Fin(DEFAULT_STALE_TIME) ELSE defaultStaleTime
  IN /\ Len(constructed) < MaxClients
     /\ QueryClient_staleTime' = staleTime
     /\ constructed' = Append(constructed, staleTime)
     /\ last' = Call("newQueryClient", <<>>, <<>>, defaultStaleTime, undefined, NoEntry,
                     0, 0, FALSE)
     /\ UNCHANGED <<handle, other, signals, queries, held, setValue, now, promises, fetched, ensureFetches,
                    markedBy>>

\* QueryClient.staleTime = staleTime: the static field is public and writable,
\* and the tests assign it directly.
assignStaleTime(staleTime) ==
  /\ QueryClient_staleTime' = staleTime
  /\ last' = [NoCall EXCEPT !.op = "assignStaleTime", !.opt = staleTime]
  /\ UNCHANGED <<handle, other, signals, queries, held, constructed, setValue, now,
                 promises, fetched, ensureFetches, markedBy>>

\* The caller turns to the second QueryClient instance: the methods called
\* from now on run on its #queries, the map of the client left behind being
\* kept as it is. The notes kept on the calls made so far start afresh.
switchClient ==
  /\ Len(constructed) >= 2
  /\ ~handle.active
  /\ queries' = other
  /\ other' = queries
  /\ fetched' = <<>>
  /\ ensureFetches' = <<>>
  /\ markedBy' = <<>>
  /\ setValue' = <<>>
  /\ last' = [NoCall EXCEPT !.op = "switchClient"]
  /\ UNCHANGED <<handle, signals, QueryClient_staleTime, held, constructed, now, promises>>

(* ----------------------------- environment ----------------------------- *)
\* A pending promise returned by queryFn settles.
Settle(p) ==
  /\ p \in DOMAIN promises
  /\ promises[p] = Pending
  /\ promises' = [promises EXCEPT ![p] = Fulfilled(Data)]
  /\ last' = [NoCall EXCEPT !.op = "settle"]
  /\ UNCHANGED <<handle, other, signals, queries, QueryClient_staleTime, held, constructed, setValue, now, fetched, ensureFetches, markedBy>>

\* Mutant: a rejection that makes the client run the computation again.
Reject_retries(p) ==
  /\ p \in DOMAIN promises
  /\ promises[p] = Pending
  /\ Len(promises) < MaxPromises
  /\ promises' = Append([promises EXCEPT ![p] = Rejected(Reason)], Pending)
  /\ queries' = [k \in DOMAIN queries |->
                   IF queries[k].promise = p
                   THEN CacheEntry(Len(promises) + 1, now)
                   ELSE queries[k]]
  /\ last' = [NoCall EXCEPT !.op = "reject", !.ret = p]
  /\ UNCHANGED <<handle, other, signals, QueryClient_staleTime, held, constructed, setValue, now,
                 fetched, ensureFetches, markedBy>>

\* A pending promise returned by queryFn rejects.
Reject(p) ==
  /\ p \in DOMAIN promises
  /\ promises[p] = Pending
  /\ promises' = [promises EXCEPT ![p] = Rejected(Reason)]
  /\ last' = [NoCall EXCEPT !.op = "reject", !.ret = p]
  /\ UNCHANGED <<handle, other, signals, queries, QueryClient_staleTime, held, constructed, setValue, now, fetched,
                 ensureFetches, markedBy>>

\* Mutant: aborting a signal also drops the entries of its computations.
teardown_evicts(signal) ==
  /\ signal \in DOMAIN signals
  /\ ~signals[signal].aborted
  /\ signals' = [signals EXCEPT ![signal].aborted = TRUE]
  /\ queries' = [k \in {x \in DOMAIN queries :
                          queries[x].promise \notin signals[signal].promises}
                   |-> queries[k]]
  /\ last' = [NoCall EXCEPT !.op = "teardown", !.signal = signal]
  /\ handle' = Unmounted(signal)
  /\ UNCHANGED <<other, QueryClient_staleTime, held, constructed, setValue, now, promises,
                 fetched, ensureFetches, markedBy>>

\* The handle that owns the signal is torn down (its component unmounts or
\* its key changes): getAbortSignal()'s signal is aborted.
teardown(signal) ==
  /\ signal \in DOMAIN signals
  /\ ~signals[signal].aborted
  /\ signals' = [signals EXCEPT ![signal].aborted = TRUE]
  /\ last' = [NoCall EXCEPT !.op = "teardown", !.signal = signal]
  /\ handle' = Unmounted(signal)
  /\ UNCHANGED <<other, queries, QueryClient_staleTime, held, constructed, setValue, now,
                 promises, fetched, ensureFetches, markedBy>>

\* A pending computation whose signal has been aborted rejects.
RejectAborted(p) ==
  /\ p \in DOMAIN promises
  /\ promises[p] = Pending
  /\ \E signal \in DOMAIN signals :
       signals[signal].aborted /\ p \in signals[signal].promises
  /\ promises' = [promises EXCEPT ![p] = Rejected(AbortReason)]
  /\ last' = [NoCall EXCEPT !.op = "reject", !.ret = p]
  /\ UNCHANGED <<handle, other, signals, queries, QueryClient_staleTime, held, constructed, setValue,
                 now, fetched, ensureFetches, markedBy>>

\* Mutant: a clock tick that evicts the entries older than the default staleTime.
Tick_evicts ==
  /\ now < MaxTime
  /\ now' = now + 1
  /\ queries' = [k \in {x \in DOMAIN queries :
                          ~GreaterThan(Minus(Fin(now + 1), queries[x].createdAt),
                                       QueryClient_staleTime)}
                   |-> queries[k]]
  /\ last' = [NoCall EXCEPT !.op = "tick"]
  /\ UNCHANGED <<handle, other, signals, QueryClient_staleTime, held, constructed, setValue, promises,
                 fetched, ensureFetches, markedBy>>

\* A millisecond passes.
Tick ==
  /\ now < MaxTime
  /\ now' = now + 1
  /\ last' = [NoCall EXCEPT !.op = "tick"]
  /\ UNCHANGED <<handle, other, signals, queries, QueryClient_staleTime, held, constructed, setValue, promises, fetched, ensureFetches,
                 markedBy>>

(* --------------------------- specifications ---------------------------- *)
\* new QueryClient(defaultStaleTime): an empty map, the static default overwritten.
QueryClient(defaultStaleTime) ==
  /\ queries = <<>>
  /\ QueryClient_staleTime = defaultStaleTime
  /\ now = 0
  /\ promises = <<>>
  /\ last = NoCall
  /\ fetched = <<>>
  /\ ensureFetches = <<>>
  /\ markedBy = <<>>
  /\ setValue = <<>>
  /\ held = NoQuery
  /\ constructed = <<defaultStaleTime>>
  /\ signals = <<>>
  /\ handle = NoHandle
  /\ other = <<>>

\* The client of the staleness tests: new QueryClient(0).
Init == QueryClient(Fin(0))

\* The client of the documentation: new QueryClient().
InitDefault == QueryClient(Fin(DEFAULT_STALE_TIME))

\* Options whose queryFn returns a promise, and options whose queryFn throws
\* before returning one.
Options(queryKey, st) ==
  [queryKey |-> queryKey, staleTime |-> st, queryFn |-> "returns"]
ThrowingOptions(queryKey, st) ==
  [queryKey |-> queryKey, staleTime |-> st, queryFn |-> "throws"]

Next ==
  \/ \E i \in DOMAIN QueryKeys, s \in DOMAIN StaleTimeOptions, t \in now..MaxTime :
       fetchQuery(Options(QueryKeys[i], StaleTimeOptions[s]), t)
  \/ \E i \in DOMAIN QueryKeys, t \in now..MaxTime :
       ensureQuery(Options(QueryKeys[i], undefined), t)
  \/ \E i \in DOMAIN QueryKeys : setQuery(QueryKeys[i], Plain(Values[1]))
  \/ \E i \in DOMAIN QueryKeys : removeQuery(Options(QueryKeys[i], undefined))
  \/ clear
  \/ \E i \in DOMAIN QueryKeys : getQuery(QueryKeys[i])
  \/ \E i \in DOMAIN QueryKeys : invalidateQuery(QueryKeys[i])
  \/ \E p \in 1..MaxPromises : Settle(p)
  \/ Tick

Spec == Init /\ [][Next]_vars

\* Prefix invalidation over the wide key set: entries are seeded with setQuery,
\* invalidated by prefix and read back with fetchQuery.
NextPrefix ==
  \/ \E i \in DOMAIN PrefixKeys : setQuery(PrefixKeys[i], Plain(Values[1]))
  \/ \E i \in DOMAIN PrefixKeys : invalidateQueries(PrefixKeys[i])
  \/ \E i \in DOMAIN PrefixKeys, s \in DOMAIN StaleTimeOptions :
       fetchQuery(Options(PrefixKeys[i], StaleTimeOptions[s]), now)

SpecPrefix == InitDefault /\ [][NextPrefix]_vars

\* Values and outcomes on one key: the entry is seeded with either value,
\* computations fulfil or reject, and every way of reading the key is exercised.
NextValues ==
  \/ \E v \in DOMAIN Values : setQuery(QueryKeys[1], Plain(Values[v]))
  \/ getQuery(QueryKeys[1])
  \/ \E s \in DOMAIN StaleTimeOptions :
       fetchQuery(Options(QueryKeys[1], StaleTimeOptions[s]), now)
  \/ ensureQuery(Options(QueryKeys[1], undefined), now)
  \/ createQuery(Options(QueryKeys[1], undefined), now)
  \/ removeQuery(Options(QueryKeys[1], undefined))
  \/ clear
  \/ invalidateQuery(QueryKeys[1])
  \/ invalidateQueries(PrefixKeys[1])
  \/ \E p \in 1..MaxPromises : Settle(p)
  \/ \E p \in 1..MaxPromises : Reject(p)
  \/ Tick

SpecValues == Init /\ [][NextValues]_vars

\* One key read through reactive handles whose computations can be aborted.
NextHandle ==
  \/ setQuery(QueryKeys[1], Plain(Values[1]))
  \/ getQuery(QueryKeys[1])
  \/ fetchQuery(Options(QueryKeys[1], undefined), now)
  \/ ensureQuery(Options(QueryKeys[1], undefined), now)
  \/ \E s \in DOMAIN StaleTimeOptions :
       createQuery(Options(QueryKeys[1], StaleTimeOptions[s]), now)
  \/ invalidateQuery(QueryKeys[1])
  \/ \E signal \in 1..MaxPromises : teardown(signal)
  \/ \E p \in 1..MaxPromises : RejectAborted(p)
  \/ \E p \in 1..MaxPromises : Settle(p)
  \/ \E p \in 1..MaxPromises : Reject(p)
  \/ Tick

SpecHandle == Init /\ [][NextHandle]_vars

\* Two keys, the second set to plain values and to promises the caller got
\* from fetchQuery on the first.
NextSet ==
  \/ fetchQuery(Options(QueryKeys[1], undefined), now)
  \/ \E v \in DOMAIN Values : setQuery(QueryKeys[2], Plain(Values[v]))
  \/ \E p \in 1..MaxPromises : setQuery(QueryKeys[2], Thenable(p))
  \/ \E i \in DOMAIN QueryKeys : getQuery(QueryKeys[i])
  \/ \E s \in DOMAIN StaleTimeOptions :
       fetchQuery(Options(QueryKeys[2], StaleTimeOptions[s]), now)
  \/ \E p \in 1..MaxPromises : Settle(p)
  \/ \E p \in 1..MaxPromises : Reject(p)
  \/ Tick

SpecSet == Init /\ [][NextSet]_vars

\* One component whose optionsFn returns one of two keys and whose queryKey
\* is read, next to fetchQuery, ensureQuery and the invalidations of the same
\* client.
NextReactive ==
  \/ mount(Options(QueryKeys[1], undefined))
  \/ derive(now)
  \/ QueryResult_queryKey
  \/ \E i \in DOMAIN QueryKeys : optionsFn(Options(QueryKeys[i], undefined))
  \/ unmount
  \/ invalidateQuery(QueryKeys[1])
  \/ invalidateQueries(QueryKeys[1])
  \/ fetchQuery(Options(QueryKeys[1], undefined), now)
  \/ ensureQuery(Options(QueryKeys[1], undefined), now)
  \/ Tick

\* The effect that reads the handle is run again by the scheduler whenever
\* something it depends on has changed.
SpecReactive == Init /\ [][NextReactive]_vars /\ WF_vars(derive(now))

\* One component whose optionsFn runs again and again, returning the key it
\* returned before, another key, or a key that cannot be serialised, and
\* whose queryKey is read between the runs.
NextSwitch ==
  \/ mount(Options(QueryKeys[1], undefined))
  \/ derive(now)
  \/ QueryResult_queryKey
  \/ \E i \in DOMAIN HandleKeys : optionsFn(Options(HandleKeys[i], undefined))
  \/ optionsFn(Options(QueryKeys[2], StaleTimeOptions[2]))
  \/ Tick

SpecSwitch == Init /\ [][NextSwitch]_vars /\ WF_vars(derive(now))

\* One component reading a key that other code sets, removes, clears and
\* invalidates.
NextNotify ==
  \/ mount(Options(QueryKeys[1], undefined))
  \/ derive(now)
  \/ QueryResult_queryKey
  \/ \E i \in DOMAIN QueryKeys : optionsFn(Options(QueryKeys[i], undefined))
  \/ setQuery(QueryKeys[1], Plain(Values[1]))
  \/ setQuery(QueryKeys[1], Thenable(1))
  \/ removeQuery(Options(QueryKeys[1], undefined))
  \/ clear
  \/ invalidateQuery(QueryKeys[1])
  \/ Tick

SpecNotify == Init /\ [][NextNotify]_vars

\* One key fetched, and read through handles, with a queryFn that returns a
\* promise and with one that throws.
NextThrows ==
  \/ createQuery(ThrowingOptions(QueryKeys[1], undefined), now)
  \/ \E s \in DOMAIN StaleTimeOptions :
       fetchQuery(Options(QueryKeys[1], StaleTimeOptions[s]), now)
  \/ \E s \in DOMAIN StaleTimeOptions :
       fetchQuery(ThrowingOptions(QueryKeys[1], StaleTimeOptions[s]), now)
  \/ ensureQuery(Options(QueryKeys[1], undefined), now)
  \/ ensureQuery(ThrowingOptions(QueryKeys[1], undefined), now)
  \/ getQuery(QueryKeys[1])
  \/ invalidateQuery(QueryKeys[1])
  \/ removeQuery(Options(QueryKeys[1], undefined))
  \/ \E p \in 1..MaxPromises : Settle(p)
  \/ Tick

SpecThrows == Init /\ [][NextThrows]_vars

\* One component whose queryFn returns a promise or throws.
NextRaise ==
  \/ mount(Options(QueryKeys[1], undefined))
  \/ mount(ThrowingOptions(QueryKeys[1], undefined))
  \/ mount(Options(<<Cyclic>>, undefined))
  \/ derive(now)
  \/ QueryResult_queryKey
  \/ \E i \in DOMAIN HandleKeys : optionsFn(Options(HandleKeys[i], undefined))
  \/ optionsFn(ThrowingOptions(QueryKeys[1], undefined))
  \/ unmount
  \/ invalidateQuery(QueryKeys[1])
  \/ Tick

SpecRaise == Init /\ [][NextRaise]_vars

\* One component on a key while the static default changes: clients are
\* constructed and QueryClient.staleTime is assigned between its reads.
NextLate ==
  \/ mount(Options(QueryKeys[1], undefined))
  \/ derive(now)
  \/ QueryResult_queryKey
  \/ \E s \in {1, 3} : optionsFn(Options(QueryKeys[1], StaleTimeOptions[s]))
  \/ setQuery(QueryKeys[1], Plain(Values[1]))
  \/ invalidateQuery(QueryKeys[1])
  \/ \E c \in DOMAIN ClientStaleTimes : newQueryClient(ClientStaleTimes[c])
  \/ \E a \in DOMAIN AssignedStaleTimes : assignStaleTime(AssignedStaleTimes[a])
  \/ Tick

SpecLate == Init /\ [][NextLate]_vars

\* Two QueryClient instances called in turn on one key.
NextClients ==
  \/ \E c \in DOMAIN ClientStaleTimes : newQueryClient(ClientStaleTimes[c])
  \/ switchClient
  \/ fetchQuery(Options(QueryKeys[1], undefined), now)
  \/ ensureQuery(Options(QueryKeys[1], undefined), now)
  \/ setQuery(QueryKeys[1], Plain(Values[1]))
  \/ removeQuery(Options(QueryKeys[1], undefined))
  \/ clear
  \/ invalidateQuery(QueryKeys[1])
  \/ invalidateQueries(PrefixKeys[1])
  \/ Tick

SpecClients == Init /\ [][NextClients]_vars


\* Staleness arithmetic and the static default: Query objects are built by hand
\* and asked isStale, while further clients are constructed and the static
\* default is assigned.
LastUpdated(d) == IF d > MaxAge THEN NEGATIVE_INFINITY ELSE Fin(now - d)

NextStale ==
  \/ \E s \in DOMAIN QueryStaleTimes : newQuery(Options(QueryKeys[1], QueryStaleTimes[s]))
  \/ \E d \in 0..(MaxAge + 1) : Query_isStale(LastUpdated(d))
  \/ \E c \in DOMAIN ClientStaleTimes : newQueryClient(ClientStaleTimes[c])
  \/ \E a \in DOMAIN AssignedStaleTimes : assignStaleTime(AssignedStaleTimes[a])
  \/ Tick

SpecStale == Init /\ [][NextStale]_vars

\* The static default as the first client's fetchQuery sees it: further
\* clients are constructed, the default is assigned, and the first client
\* serves one key.
NextDefault ==
  \/ \E c \in DOMAIN ClientStaleTimes : newQueryClient(ClientStaleTimes[c])
  \/ \E a \in DOMAIN AssignedStaleTimes : assignStaleTime(AssignedStaleTimes[a])
  \/ setQuery(QueryKeys[1], Plain(Values[1]))
  \/ \E s \in DOMAIN StaleTimeOptions :
       fetchQuery(Options(QueryKeys[1], StaleTimeOptions[s]), now)
  \/ Tick

SpecDefault == Init /\ [][NextDefault]_vars

\* Key encoding: the cache methods on keys with object, cyclic and undefined
\* fragments.
NextKeys ==
  \/ \E i \in DOMAIN KeyInputs : setQuery(KeyInputs[i], Plain(Values[1]))
  \/ \E i \in DOMAIN KeyInputs : getQuery(KeyInputs[i])
  \/ \E i \in DOMAIN KeyInputs : fetchQuery(Options(KeyInputs[i], undefined), now)
  \/ \E i \in DOMAIN KeyInputs : ensureQuery(Options(KeyInputs[i], undefined), now)
  \/ \E i \in DOMAIN KeyInputs : invalidateQuery(KeyInputs[i])

SpecKeys == InitDefault /\ [][NextKeys]_vars

\* Keys with an object fragment whose fields are written in either order.
NextOrder ==
  \/ \E i \in DOMAIN ObjectKeys : setQuery(ObjectKeys[i], Plain(Values[1]))
  \/ \E i \in DOMAIN ObjectKeys : getQuery(ObjectKeys[i])
  \/ \E i \in 1..2 : fetchQuery(Options(ObjectKeys[i], undefined), now)
  \/ \E i \in 1..2 : invalidateQuery(ObjectKeys[i])

SpecOrder == InitDefault /\ [][NextOrder]_vars

\* Query objects built by hand on the same keys, read back and fetched.
NextQuery ==
  \/ \E i \in DOMAIN KeyInputs, s \in DOMAIN QueryStaleTimes :
       newQuery(Options(KeyInputs[i], QueryStaleTimes[s]))
  \/ \E i \in DOMAIN QueryKeys : newQuery(Options(QueryKeys[i], undefined))
  \/ Query_queryKey
  \/ \E signal \in 0..MaxPromises : Query_fetch(signal)

SpecQuery == InitDefault /\ [][NextQuery]_vars

(* ----------------------------- properties ------------------------------ *)
\* The staleTime the descriptor of the recorded call carries: the option when
\* given, else the static default.
DescriptorStaleTime(call) ==
  IF call.opt.k = "undefined" THEN QueryClient_staleTime ELSE call.opt

\* now - createdAt, and a <= b, on JavaScript numbers.
Age(t, createdAt) ==
  IF createdAt.k = "-inf" THEN POSITIVE_INFINITY ELSE Fin(t - createdAt.n)

AtMost(a, b) ==
  CASE a.k = "+inf" -> b.k = "+inf"
    [] a.k = "fin" -> b.k = "+inf" \/ (b.k = "fin" /\ a.n <= b.n)
    [] a.k = "-inf" -> TRUE

\* "Not stale": now - createdAt <= staleTime.
Fresh(entry, t, st) == AtMost(Age(t, entry.createdAt), st)

\* Structural equality of two JSON values, and "key begins with the fragment
\* sequence prefix".
RECURSIVE ValueEq(_, _)
ValueEq(a, b) ==
  /\ a.t = b.t
  /\ CASE a.t = "string" -> a.s = b.s
       [] a.t = "number" -> a.n = b.n
       [] a.t = "boolean" -> a.b = b.b
       [] a.t = "null" -> TRUE
       [] a.t = "undefined" -> TRUE
       [] a.t = "array" -> /\ Len(a.a) = Len(b.a)
                           /\ \A i \in 1..Len(a.a) : ValueEq(a.a[i], b.a[i])
       [] a.t = "object" -> /\ Len(a.o) = Len(b.o)
                            /\ \A i \in 1..Len(a.o) :
                                 \E j \in 1..Len(b.o) :
                                   /\ a.o[i].name = b.o[j].name
                                   /\ ValueEq(a.o[i].value, b.o[j].value)

BeginsWith(queryKey, prefix) ==
  /\ Len(prefix) <= Len(queryKey)
  /\ \A i \in 1..Len(prefix) : ValueEq(queryKey[i], prefix[i])

\* C1: a fetchQuery that finds an entry that is not stale (now - createdAt <=
\* the descriptor's staleTime) returns the promise the map holds, runs no
\* queryFn and leaves the map as it was.
C1_FreshEntryIsReturned ==
  [][(/\ last'.op = "fetchQuery"
      /\ last'.key \in DOMAIN queries
      /\ Fresh(queries[last'.key], now, DescriptorStaleTime(last')))
     => (/\ last'.ret = queries[last'.key].promise
         /\ last'.invoked = 0
         /\ queries' = queries
         /\ promises' = promises)]_vars

\* C1 witness: a fetchQuery served from an entry aged exactly its staleTime.
C1_Witness ==
  /\ last.op = "fetchQuery"
  /\ last.invoked = 0
  /\ last.pre # NoEntry
  /\ last.ret = last.pre.promise
  /\ last.opt = Fin(1)
  /\ last.pre.createdAt = Fin(0)
  /\ last.t0 = 1

\* C2: a fetchQuery that finds a stale entry runs queryFn once, stores a new
\* entry with the new promise and the current time under the key and returns
\* the new promise; with the default staleTime 0, any call later than the
\* entry's creation does so.
C2_StaleEntryIsReplaced ==
  /\ (/\ last.op = "fetchQuery"
      /\ last.pre # NoEntry
      /\ ~Fresh(last.pre, last.t0, DescriptorStaleTime(last)))
     => (/\ last.invoked = 1
         /\ last.ret = Len(promises)
         /\ last.ret # last.pre.promise
         /\ last.key \in DOMAIN queries
         /\ queries[last.key] = CacheEntry(last.ret, now)
         /\ last.t0 <= now)
  /\ (/\ last.op = "fetchQuery"
      /\ last.opt = undefined
      /\ QueryClient_staleTime = Fin(0)
      /\ last.pre # NoEntry
      /\ last.pre.createdAt.k = "fin"
      /\ last.t0 - last.pre.createdAt.n > 0)
     => (last.invoked = 1 /\ last.ret # last.pre.promise)

\* C2 witness: with the default staleTime 0, a fetchQuery 1 ms after the entry
\* was made has refetched.
C2_Witness ==
  /\ last.op = "fetchQuery"
  /\ last.opt = undefined
  /\ last.pre # NoEntry
  /\ last.pre.createdAt = Fin(0)
  /\ last.t0 = 1
  /\ last.invoked = 1
  /\ queries[last.key].promise = last.ret

\* C3: a fetchQuery that arrives while the promise started by an earlier
\* fetchQuery of the same key is still pending and the entry is not stale gets
\* that same promise and runs no queryFn, whatever was done to other keys in
\* between.
C3_ConcurrentFetchesShareOnePromise ==
  (/\ last.op = "fetchQuery"
   /\ last.first # 0
   /\ promises[last.first] = Pending
   /\ last.pre # NoEntry
   /\ Fresh(last.pre, last.t0, DescriptorStaleTime(last)))
  => (last.ret = last.first /\ last.invoked = 0)

\* C3 witness: the second fetchQuery got the pending promise of the first,
\* with an entry stored under another key in between.
C3_Witness ==
  /\ last.op = "fetchQuery"
  /\ last.first # 0
  /\ promises[last.first] = Pending
  /\ last.ret = last.first
  /\ last.invoked = 0
  /\ Cardinality(DOMAIN queries) = 2

\* C4: ensureQuery on a key that has an entry returns that entry's promise and
\* runs no queryFn, however old or invalidated the entry; so between removals
\* of a key ensureQuery runs queryFn for it at most once.
C4_EnsureNeverRefetches ==
  /\ (last.op = "ensureQuery" /\ last.pre # NoEntry)
     => (/\ last.ret = last.pre.promise
         /\ last.invoked = 0
         /\ last.key \in DOMAIN queries
         /\ queries[last.key] = last.pre)
  /\ \A k \in DOMAIN ensureFetches : ensureFetches[k] <= 1

\* C4 witness: a second ensureQuery, made when the entry the first one created
\* had outlived the staleTime, returned it.
C4_Witness ==
  /\ last.op = "ensureQuery"
  /\ last.pre # NoEntry
  /\ ~Fresh(last.pre, last.t0, DescriptorStaleTime(last))
  /\ last.ret = last.pre.promise
  /\ MapGet(ensureFetches, last.key, 0) = 1

\* C5: the fetchQuery that follows invalidateQuery(k) on an existing entry runs
\* queryFn and returns the new promise, whatever staleTime its descriptor has.
C5_InvalidatedEntryIsRefetched ==
  (last.op = "fetchQuery" /\ last.mark.op = "invalidateQuery")
  => (last.invoked = 1 /\ last.ret # last.pre.promise)

\* C6: invalidateQuery(k) changes nothing but the createdAt of k's entry, which
\* becomes negative infinity (and nothing at all when k has no entry); a
\* getQuery or ensureQuery of k right after it returns the promise the entry
\* held before and runs no queryFn.
C6_InvalidateOnlyMarks ==
  [][/\ (last'.op = "invalidateQuery")
        => (/\ queries' = IF last'.key \in DOMAIN queries
                          THEN [queries EXCEPT ![last'.key].createdAt = NEGATIVE_INFINITY]
                          ELSE queries
            /\ promises' = promises
            /\ now' = now)
     /\ (/\ last.op = "invalidateQuery"
         /\ last.pre # NoEntry
         /\ last'.op \in {"getQuery", "ensureQuery"}
         /\ last'.key = last.key)
        => (/\ last'.ret = last.pre.promise
            /\ last'.invoked = 0
            /\ queries' = queries)]_vars

\* C6 witness: a getQuery of an entry marked by invalidateQuery returned the
\* entry's promise.
C6_Witness ==
  /\ last.op = "getQuery"
  /\ last.mark.op = "invalidateQuery"
  /\ last.pre.createdAt = NEGATIVE_INFINITY
  /\ last.ret = last.pre.promise
  /\ last.ret # 0

\* C7: an entry marked by invalidateQueries(p) has a key that begins with p,
\* fragment by fragment.
C7_OnlyPrefixedKeysAreMarked ==
  \A i \in DOMAIN PrefixKeys :
    LET key == KeyString(PrefixKeys[i])
    IN (key \in DOMAIN markedBy /\ markedBy[key].op = "invalidateQueries")
       => BeginsWith(PrefixKeys[i], markedBy[key].queryKey)

\* After invalidateQueries(p) every stored entry whose key begins with p has
\* createdAt negative infinity.
PrefixedEntriesAreMarked ==
  last.op = "invalidateQueries"
  => \A i \in DOMAIN PrefixKeys :
       LET key == KeyString(PrefixKeys[i])
       IN (key \in DOMAIN queries /\ BeginsWith(PrefixKeys[i], last.queryKey))
          => queries[key].createdAt = NEGATIVE_INFINITY

\* C8: invalidateQueries(p) marks every stored entry whose key begins with p,
\* and the fetchQuery that follows on such a key runs queryFn.
C8_PrefixInvalidationForcesRefetch ==
  /\ PrefixedEntriesAreMarked
  /\ (/\ last.op = "fetchQuery"
      /\ last.mark.op = "invalidateQueries"
      /\ BeginsWith(last.queryKey, last.mark.queryKey))
     => last.invoked = 1

\* C9: invalidateQueries() marks every stored entry, and the fetchQuery that
\* follows on any stored key runs queryFn once.
C9_EmptyPrefixForcesRefetchOfAll ==
  /\ (last.op = "invalidateQueries" /\ last.queryKey = <<>>)
     => \A key \in DOMAIN queries : queries[key].createdAt = NEGATIVE_INFINITY
  /\ (/\ last.op = "fetchQuery"
      /\ last.mark.op = "invalidateQueries"
      /\ last.mark.queryKey = <<>>)
     => last.invoked = 1

\* C10: fetchQuery, ensureQuery, setQuery, removeQuery and invalidateQuery on
\* one key leave the entry of every other key (promise and createdAt) as it
\* was, and create no entry under another key.
C10_OtherKeysUntouched ==
  [][(last'.op \in {"fetchQuery", "ensureQuery", "setQuery", "removeQuery",
                    "invalidateQuery"})
     => (/\ \A k \in DOMAIN queries \ {last'.key} :
              k \in DOMAIN queries' /\ queries'[k] = queries[k]
         /\ DOMAIN queries' \subseteq DOMAIN queries \cup {last'.key})]_vars

\* C10 witness: an entry was invalidated while another key held a fresh one.
C10_Witness ==
  /\ last.op = "invalidateQuery"
  /\ last.pre # NoEntry
  /\ \E k \in DOMAIN queries : k # last.key /\ queries[k].createdAt.k = "fin"

\* C11: while the entry stored by setQuery(k, v) has been neither replaced nor
\* removed, the map holds for k a promise fulfilled with exactly v, and
\* getQuery(k) returns that promise.
C11_SetThenGetResolvesToValue ==
  /\ \A k \in DOMAIN setValue :
       /\ k \in DOMAIN queries
       /\ promises[queries[k].promise] = Fulfilled(setValue[k])
  /\ (last.op = "getQuery" /\ last.key \in DOMAIN setValue)
     => (/\ last.ret = queries[last.key].promise
         /\ promises[last.ret] = Fulfilled(setValue[last.key]))

\* C11 witness: getQuery returned the promise of the second value set for the
\* key, after the entry had been invalidated.
C11_Witness ==
  /\ last.op = "getQuery"
  /\ last.key \in DOMAIN setValue
  /\ setValue[last.key] = Values[2]
  /\ promises[last.ret] = Fulfilled(Values[2])
  /\ last.ret = 2
  /\ last.pre.createdAt = NEGATIVE_INFINITY

\* C12: setQuery(k, v) puts under k a new entry, whatever k held before, with
\* a new promise fulfilled with v and createdAt the current time; a fetchQuery
\* of k made while that entry is within the descriptor's staleTime returns the
\* promise of v, runs no queryFn and leaves the map as it was.
C12_SetReplacesUnconditionally ==
  [][/\ (last'.op = "setQuery")
        => (/\ Len(promises') = Len(promises) + 1
            /\ promises'[Len(promises')] = Fulfilled(setValue'[last'.key])
            /\ queries'[last'.key] = CacheEntry(Len(promises'), now)
            /\ now' = now)
     /\ (/\ last'.op = "fetchQuery"
         /\ last'.key \in DOMAIN setValue
         /\ queries[last'.key].createdAt.k = "fin"
         /\ AtMost(Age(now, queries[last'.key].createdAt), DescriptorStaleTime(last')))
        => (/\ last'.ret = queries[last'.key].promise
            /\ promises[last'.ret] = Fulfilled(setValue[last'.key])
            /\ last'.invoked = 0
            /\ queries' = queries)]_vars

\* C12 witness: setQuery has just replaced an invalidated entry whose promise
\* was still pending by an entry created now.
C12_Witness ==
  /\ last.op = "setQuery"
  /\ last.mark.op = "invalidateQuery"
  /\ last.pre.createdAt = NEGATIVE_INFINITY
  /\ promises[last.pre.promise] = Pending
  /\ now = 1
  /\ queries[last.key] = CacheEntry(Len(promises), 1)

\* C13: the promise fetchQuery and ensureQuery return when they compute is the
\* one queryFn returned, so it rejects with queryFn's reason; the rejection
\* leaves the map as it was; and a fetchQuery that finds a rejected entry that
\* is neither stale nor invalidated returns that same rejected promise, runs no
\* queryFn and leaves the map as it was.
C13_RejectedEntryIsKeptAndNotRetried ==
  [][/\ (last'.op \in {"fetchQuery", "ensureQuery"} /\ last'.invoked = 1)
        => (/\ last'.ret = Len(promises')
            /\ promises'[last'.ret] = Pending
            /\ queries'[last'.key].promise = last'.ret)
     /\ (last'.op = "reject")
        => (/\ promises'[last'.ret] = Rejected(Reason)
            /\ queries' = queries)
     /\ (/\ last'.op = "fetchQuery"
         /\ last'.key \in DOMAIN queries
         /\ promises[queries[last'.key].promise].state = "rejected"
         /\ queries[last'.key].createdAt.k = "fin"
         /\ AtMost(Age(now, queries[last'.key].createdAt), DescriptorStaleTime(last')))
        => (/\ last'.ret = queries[last'.key].promise
            /\ promises'[last'.ret] = Rejected(Reason)
            /\ last'.invoked = 0
            /\ Len(promises') = Len(promises)
            /\ queries' = queries)]_vars

\* C13 witness: a fetchQuery made 1 ms after the entry was created, within
\* staleTime, returned the entry's rejected promise.
C13_Witness ==
  /\ last.op = "fetchQuery"
  /\ last.pre # NoEntry
  /\ last.pre.createdAt = Fin(0)
  /\ last.t0 = 1
  /\ last.ret = last.pre.promise
  /\ promises[last.ret] = Rejected(Reason)
  /\ last.invoked = 0
  /\ last.key \in DOMAIN queries

\* C14: a fetchQuery, ensureQuery or createQuery goes through hydratable
\* exactly when it finds no entry for the key, and then runs queryFn inside it;
\* when it refreshes an existing stale or invalidated entry it runs queryFn
\* without hydratable.
C14_HookOnlyOnFirstPopulation ==
  (last.op \in {"fetchQuery", "ensureQuery", "createQuery"})
  => (/\ last.hook <=> (last.pre = NoEntry)
      /\ last.hook => last.invoked = 1
      /\ (last.pre # NoEntry /\ last.invoked = 1) => ~last.hook)

\* C14 witness: createQuery refreshed an invalidated entry, running queryFn
\* without hydratable.
C14_Witness ==
  /\ last.op = "createQuery"
  /\ last.pre # NoEntry
  /\ last.mark.op = "invalidateQuery"
  /\ last.invoked = 1
  /\ ~last.hook
  /\ queries[last.key].promise = last.ret

\* C15: getQuery(k) returns the promise k's entry holds, and undefined exactly
\* when k has no entry; it creates no promise (runs no queryFn), and leaves the
\* map, every entry's createdAt included, and the clock as they were.
C15_GetQueryOnlyReads ==
  [][(last'.op = "getQuery")
     => (/\ last'.ret = (IF last'.key \in DOMAIN queries
                         THEN queries[last'.key].promise ELSE 0)
         /\ (last'.ret = 0) <=> (last'.key \notin DOMAIN queries)
         /\ last'.invoked = 0
         /\ promises' = promises
         /\ queries' = queries
         /\ now' = now)]_vars

\* C15 witness: getQuery returned the still pending promise of an entry that
\* had outlived the default staleTime.
C15_Witness ==
  /\ last.op = "getQuery"
  /\ last.pre.createdAt = Fin(0)
  /\ last.t0 = 1
  /\ QueryClient_staleTime = Fin(0)
  /\ last.ret = last.pre.promise
  /\ promises[last.ret] = Pending
  /\ queries[last.key] = last.pre

\* C16: removeQuery deletes the entry of the query's key and nothing else: the
\* other entries, the promises and the clock stay as they were, and with no
\* entry for the key the map is unchanged. Right after it getQuery of the key
\* returns undefined, and fetchQuery or ensureQuery of the key computes as a
\* first population (through hydratable, storing the new promise).
C16_RemoveDeletesOnlyItsKey ==
  [][/\ (last'.op = "removeQuery")
        => (/\ DOMAIN queries' = DOMAIN queries \ {last'.key}
            /\ \A k \in DOMAIN queries' : queries'[k] = queries[k]
            /\ (last'.key \notin DOMAIN queries) => (queries' = queries)
            /\ promises' = promises
            /\ now' = now)
     /\ (last.op = "removeQuery" /\ last'.op = "getQuery" /\ last'.key = last.key)
        => (last'.ret = 0)
     /\ (/\ last.op = "removeQuery"
         /\ last'.op \in {"fetchQuery", "ensureQuery"}
         /\ last'.key = last.key)
        => (/\ last'.pre = NoEntry
            /\ last'.invoked = 1
            /\ last'.hook
            /\ queries'[last'.key].promise = last'.ret
            /\ last'.ret = Len(promises'))]_vars

\* C16 witness: removeQuery deleted the entry of one key while the other key
\* kept its entry.
C16_Witness ==
  /\ last.op = "removeQuery"
  /\ last.pre # NoEntry
  /\ last.key \notin DOMAIN queries
  /\ Cardinality(DOMAIN queries) = 1

\* C17: clear() leaves the map empty and creates or settles no promise (runs
\* no queryFn); right after it getQuery of any key returns undefined, and
\* fetchQuery or ensureQuery of any key computes as a first population.
C17_ClearEmptiesTheMap ==
  [][/\ (last'.op = "clear")
        => (/\ queries' = <<>>
            /\ last'.invoked = 0
            /\ promises' = promises
            /\ now' = now)
     /\ (last.op = "clear" /\ last'.op = "getQuery") => (last'.ret = 0)
     /\ (last.op = "clear" /\ last'.op \in {"fetchQuery", "ensureQuery"})
        => (/\ last'.pre = NoEntry
            /\ last'.invoked = 1
            /\ last'.hook
            /\ last'.ret = Len(promises')
            /\ last'.ret \notin DOMAIN promises
            /\ queries' = MapSet(<<>>, last'.key, CacheEntry(last'.ret, now')))]_vars

\* C17 witness: clear has emptied the map while a promise handed out before it
\* is still pending.
C17_Witness ==
  /\ last.op = "clear"
  /\ queries = <<>>
  /\ Len(promises) >= 1
  /\ promises[1] = Pending

\* C18: isStale(t) is true exactly when now - t > staleTime, with now read at
\* the call: false when now - t = staleTime, true when now - t = staleTime + 1.
C18_IsStaleIsStrict ==
  (last.op = "isStale")
  => (/\ last.t0 = now
      /\ last.stale <=> ~AtMost(Age(now, last.pre.createdAt), last.staleTime)
      /\ (last.pre.createdAt.k = "fin" /\ last.staleTime.k = "fin")
         => (/\ last.stale <=> (now - last.pre.createdAt.n > last.staleTime.n)
             /\ (now - last.pre.createdAt.n = last.staleTime.n) => ~last.stale
             /\ (now - last.pre.createdAt.n = last.staleTime.n + 1) => last.stale))

\* C18 witness: a Query with staleTime 1 found a timestamp 2 ms old stale.
C18_Witness ==
  /\ last.op = "isStale"
  /\ last.staleTime = Fin(1)
  /\ last.pre.createdAt = Fin(now - 2)
  /\ last.stale

\* The other side of the boundary: a timestamp exactly staleTime old is fresh.
IsStaleBoundaryFresh ==
  /\ last.op = "isStale"
  /\ last.staleTime = Fin(1)
  /\ last.pre.createdAt = Fin(now - 1)
  /\ ~last.stale

\* The stale duration a held Query must have: its explicit staleTime, else the
\* value the static default had when the Query was built.
HeldStaleTime == IF held.opt.k = "undefined" THEN held.default ELSE held.opt

\* C19: a Query built without a staleTime carries the static default of the
\* moment it was built, one built with a staleTime carries that; its isStale
\* answers against this duration whatever the static default has become since,
\* through a constructor call or a direct assignment.
C19_StaleTimeFixedAtConstruction ==
  /\ (held # NoQuery) => (held.query.staleTime = HeldStaleTime)
  /\ (last.op = "isStale")
     => (/\ last.staleTime = HeldStaleTime
         /\ last.stale <=> ~AtMost(Age(now, last.pre.createdAt), HeldStaleTime))

\* C19 witness: a Query built under default 0 found a 1 ms old timestamp stale
\* after a second constructor call had made the default 1.
C19_Witness ==
  /\ last.op = "isStale"
  /\ held.opt = undefined
  /\ held.made = 1
  /\ held.default = Fin(0)
  /\ constructed = <<Fin(0), Fin(1)>>
  /\ QueryClient_staleTime = Fin(1)
  /\ last.pre.createdAt = Fin(now - 1)
  /\ last.stale

\* The same holds of the Query a handle builds: it is built at the first read,
\* of handle.queryKey or through the entry derivation, after the handle was
\* created or optionsFn ran again, resolving the static default as it is
\* then, and every later derivation until optionsFn runs again judges
\* staleness against that value, whatever the default has become since.
HandleQueryKeepsItsStaleTime ==
  [][/\ (last'.op \in {"derive", "handle.queryKey"})
          => (/\ handle'.built
              /\ handle'.staleTime = last'.staleTime
              /\ handle.built => (last'.staleTime = handle.staleTime)
              /\ ~handle.built
                   => (last'.staleTime = IF handle.opt.k = "undefined"
                                         THEN QueryClient_staleTime ELSE handle.opt))
     /\ (last'.op = "derive")
          => ((last'.invoked = 0)
                <=> (/\ last'.pre # NoEntry
                     /\ Fresh(last'.pre, now, last'.staleTime)))
     /\ (last'.op \in {"newQueryClient", "assignStaleTime", "setQuery",
                       "invalidateQuery", "tick"})
          => (handle'.built = handle.built /\ handle'.staleTime = handle.staleTime)
     /\ (last'.op = "mount") => ~handle'.built
     /\ (last'.op = "optionsFn") => (handle' = handle \/ ~handle'.built)
    ]_vars

\* A handle whose Query was built under the default 2 has found the entry of
\* its key, one millisecond old, and returned it without calling queryFn, the
\* default being 0 by then.
LateDefaultIgnoredReached ==
  /\ last.op = "derive"
  /\ last.invoked = 0
  /\ last.pre.createdAt = Fin(0)
  /\ last.t0 = 1
  /\ last.staleTime = Fin(2)
  /\ QueryClient_staleTime = Fin(0)
  /\ handle.promise = last.pre.promise

\* The same, the Query having been built by a read of handle.queryKey before
\* the handle was derived for the first time: no derivation can have built it,
\* only one promise having been made.
GetterFixesStaleTimeReached ==
  /\ LateDefaultIgnoredReached
  /\ handle.opt = undefined
  /\ Len(promises) = 1

\* C20: every constructor call overwrites the one static default with its
\* argument, and nothing but a constructor call or an assignment to the
\* static field changes it; a fetchQuery without a staleTime on the first
\* client judges the entry against the static value, not against the default
\* the first client was constructed with.
C20_LastConstructorWins ==
  [][/\ (last'.op = "newQueryClient")
        => (QueryClient_staleTime' = constructed'[Len(constructed')])
     /\ (last'.op \notin {"newQueryClient", "assignStaleTime"})
        => (QueryClient_staleTime' = QueryClient_staleTime)
     /\ (last'.op = "fetchQuery" /\ last'.opt = undefined)
        => (/\ last'.staleTime = QueryClient_staleTime
            /\ (last'.pre # NoEntry)
               => ((last'.invoked = 0)
                   <=> Fresh(last'.pre, last'.t0, QueryClient_staleTime)))]_vars

\* C20 witness: the first client was built with default 0 and a second one with
\* default 1; a fetchQuery on the first, 1 ms after the entry was made, reused it.
C20_Witness ==
  /\ constructed = <<Fin(0), Fin(1)>>
  /\ QueryClient_staleTime = Fin(1)
  /\ last.op = "fetchQuery"
  /\ last.opt = undefined
  /\ last.pre.createdAt = Fin(0)
  /\ last.t0 = 1
  /\ last.invoked = 0
  /\ last.ret = last.pre.promise

\* C21: a fetchQuery, ensureQuery, setQuery, getQuery or invalidateQuery whose
\* key cannot be serialised ends with the TypeError of JSON.stringify, runs no
\* queryFn, creates no promise and leaves the map as it was; the call that
\* follows it on a serialisable key does not fail.
C21_UnserialisableKeyFailsThatCallOnly ==
  [][/\ (/\ last'.op \in {"fetchQuery", "ensureQuery", "setQuery", "getQuery",
                         "invalidateQuery"}
         /\ ~Serializable(Arr(last'.queryKey)))
        => (/\ last'.threw = "TypeError"
            /\ last'.invoked = 0
            /\ last'.ret = 0
            /\ queries' = queries
            /\ promises' = promises)
     /\ (last.threw = "TypeError" /\ Serializable(Arr(last'.queryKey)))
        => (last'.threw = "none")]_vars

\* C21 witness: a call on a cyclic key has failed while the map held an entry.
C21_Witness ==
  /\ last.threw = "TypeError"
  /\ last.op = "fetchQuery"
  /\ last.queryKey = <<Cyclic>>
  /\ DOMAIN queries # {}
  /\ Len(promises) = Cardinality(DOMAIN queries)

\* The slot a call works on is the canonical string of its key. Right after
\* setQuery(k1, v), getQuery(k2) and fetchQuery(k2) return the promise just
\* stored, and invalidateQuery(k2) marks that entry, exactly when k1 and k2
\* have the same canonical string; the keys [{a:1,b:2}] and [{b:2,a:1}],
\* structurally equal, have different strings.
SameStringSameSlotStep ==
  /\ KeyString(KeyInputs[1]) # KeyString(KeyInputs[2])
  /\ ValueEq(Arr(KeyInputs[1]), Arr(KeyInputs[2]))
  /\ (/\ last.op = "setQuery"
      /\ last.threw = "none"
      /\ last'.op \in {"getQuery", "fetchQuery", "invalidateQuery"}
      /\ last'.threw = "none")
     => LET same == KeyString(last.queryKey) = KeyString(last'.queryKey)
            stored == queries[KeyString(last.queryKey)]
        IN /\ (last'.op \in {"getQuery", "fetchQuery"})
              => ((last'.ret = stored.promise) <=> same)
           /\ (last'.op = "invalidateQuery")
              => /\ (queries'[KeyString(last.queryKey)].createdAt = NEGATIVE_INFINITY)
                    <=> same
                 /\ queries'[KeyString(last.queryKey)].promise = stored.promise

SameStringSameSlot == [][SameStringSameSlotStep]_vars

\* Two literals with the same fields, listed in a different order.
SameFieldsOtherOrder(o1, o2) ==
  /\ o1 # o2
  /\ Len(o1) = Len(o2)
  /\ \A i \in DOMAIN o1 : \E j \in DOMAIN o2 : o1[i] = o2[j]

\* The fields of a literal that JSON.stringify writes in the order they are
\* listed in: those whose value is not undefined (a field with that value is
\* left out) and whose name is not an array index (these are written first,
\* in ascending order). "01" and "-1" are no array indices.
NamedFields(o) ==
  SelectSeq(o, LAMBDA p : ~IsArrayIndex(p.name) /\ p.value.t # "undefined")

\* C22, as the code has it: two keys address the same slot exactly when their
\* canonical strings are equal. Of two keys with an object fragment that
\* lists the same fields in a different order, an entry set under one is not
\* seen under the other exactly when the fields that are written in listing
\* order (value not undefined, name not an array index) come in a different
\* order; when the two listings differ only in where they have fields named
\* by array indices or fields whose value is undefined, the keys are one
\* slot.
C22_SlotFollowsEnumerationOrder ==
  [][/\ SameStringSameSlotStep
     /\ \A i, j \in DOMAIN ObjectLiterals :
          (/\ SameFieldsOtherOrder(ObjectLiterals[i], ObjectLiterals[j])
           /\ last.op = "setQuery"
           /\ last.queryKey = <<Obj(ObjectLiterals[i])>>
           /\ last'.op \in {"getQuery", "fetchQuery"}
           /\ last'.queryKey = <<Obj(ObjectLiterals[j])>>)
          => ((last'.ret # queries[KeyString(last.queryKey)].promise)
                <=> (NamedFields(ObjectLiterals[i]) # NamedFields(ObjectLiterals[j])))
    ]_vars

\* C22 witness: getQuery([{b:2,a:1}]) has found nothing although [{a:1,b:2}]
\* has an entry.
C22_Witness ==
  /\ last.op = "getQuery"
  /\ last.queryKey = ObjectKeys[2]
  /\ last.ret = 0
  /\ KeyString(ObjectKeys[1]) \in DOMAIN queries
  /\ KeyString(ObjectKeys[2]) \notin DOMAIN queries

\* getQuery([{1:'y',2:'x'}]) has returned the entry set under [{2:'x',1:'y'}].
ReorderedIndicesHitReached ==
  /\ last.op = "getQuery"
  /\ last.queryKey = ObjectKeys[4]
  /\ last.ret # 0
  /\ setValue # <<>>
  /\ Cardinality(DOMAIN queries) = 1

\* getQuery([{b:1,a:undefined}]) has returned the entry set under
\* [{a:undefined,b:1}].
ReorderedUndefinedHitReached ==
  /\ last.op = "getQuery"
  /\ last.queryKey = ObjectKeys[6]
  /\ last.ret # 0
  /\ setValue # <<>>
  /\ KeyString(ObjectKeys[5]) = KeyString(ObjectKeys[6])
  /\ DOMAIN queries = {KeyString(ObjectKeys[5])}

\* getQuery([{'-1':2,'01':1}]) has found nothing although [{'01':1,'-1':2}]
\* has an entry: names that look like numbers without being array indices
\* are written in listing order.
NumberLikeNamesMissReached ==
  /\ last.op = "getQuery"
  /\ last.queryKey = ObjectKeys[8]
  /\ last.ret = 0
  /\ DOMAIN queries = {KeyString(ObjectKeys[7])}

\* An entry set under a key with an object fragment is not seen under the
\* key whose fragment lists the same fields in a different order.
ReorderedFieldsOtherSlotStep ==
  \A i, j \in DOMAIN ObjectLiterals :
    (/\ SameFieldsOtherOrder(ObjectLiterals[i], ObjectLiterals[j])
     /\ last.op = "setQuery"
     /\ last.queryKey = <<Obj(ObjectLiterals[i])>>
     /\ last'.op \in {"getQuery", "fetchQuery"}
     /\ last'.queryKey = <<Obj(ObjectLiterals[j])>>)
    => (last'.ret # queries[KeyString(last.queryKey)].promise)

\* C22, as stated: two keys address the same slot exactly when their
\* canonical strings are equal, and keys that contain an object fragment with
\* the same fields listed in a different order are different slots: an entry
\* set under one is not seen under the other.
C22_SlotIsTheCanonicalString ==
  [][SameStringSameSlotStep /\ ReorderedFieldsOtherSlotStep]_vars

\* Two keys that differ (undefined against null) share one slot, their
\* canonical strings being equal.
SharedSlotReached ==
  /\ last.op = "getQuery"
  /\ last.queryKey = KeyInputs[5]
  /\ last.ret # 0
  /\ setValue # <<>>
  /\ Len(promises) = 1

\* Serialising the reconstructed key gives the canonical string again.
ReconstructedKeyReserialises ==
  (last.op = "queryKey") => (KeyString(last.argKey) = held.query.key)

\* C23: the key Query.queryKey returns is structurally equal to the key the
\* Query was constructed with, and serialises to the same canonical string.
C23_QueryKeyRoundTrips ==
  (last.op = "queryKey")
  => (/\ ValueEq(Arr(last.argKey), Arr(held.queryKey))
      /\ KeyString(last.argKey) = held.query.key)

\* C24: Query.fetch(signal) runs queryFn once, handing it the signal it was
\* given (or undefined) and the key parsed back from the canonical string, and
\* returns the promise queryFn made, still pending and untouched.
C24_FetchPassesSignalAndKey ==
  (last.op = "fetch")
  => (/\ last.invoked = 1
      /\ last.signal = last.given
      /\ ValueEq(Arr(last.argKey), JSONparse(KeyString(held.queryKey)))
      /\ last.ret = Len(promises)
      /\ promises[last.ret] = Pending
      /\ (last.given # 0) => (last.ret \in signals[last.given].promises)
      /\ queries = <<>>)

\* C24 witness: fetch was called with the signal of a new AbortController on a
\* Query whose key [{b:2,a:1}] was parsed back for queryFn.
C24_Witness ==
  /\ last.op = "fetch"
  /\ held.queryKey = KeyInputs[2]
  /\ last.given = 1
  /\ last.signal = 1
  /\ signals[1].promises = {last.ret}
  /\ last.argKey = KeyInputs[2]

(* ------------------------------ C25 ------------------------------ *)
\* C25: createQuery reads the map that fetchQuery, ensureQuery and setQuery
\* write: when an entry for the key exists, has not been invalidated and is
\* not older than the handle's staleTime, the handle resolves from that entry's promise, queryFn
\* is not invoked, no signal is handed out and the entry is left as it was.
C25_CreateQueryReusesSharedEntry ==
  (/\ last.op = "createQuery"
   /\ last.threw = "none"
   /\ last.pre # NoEntry
   /\ last.pre.createdAt.k = "fin"
   /\ Fresh(last.pre, last.t0, DescriptorStaleTime(last)))
  => (/\ last.ret = last.pre.promise
      /\ last.invoked = 0
      /\ last.signal = 0
      /\ last.key \in DOMAIN queries
      /\ queries[last.key] = last.pre)

\* C25 witness: a handle has resolved, without computing, from an entry whose
\* computation was started by an earlier handle that has since been torn down.
C25_Witness ==
  /\ last.op = "createQuery"
  /\ last.invoked = 0
  /\ last.pre # NoEntry
  /\ \E signal \in DOMAIN signals :
       signals[signal].aborted /\ last.ret \in signals[signal].promises

(* ------------------------------ C26 ------------------------------ *)
\* C26: cancellation has no cache-level effect. Aborting a handle's signal
\* changes neither the map nor any promise; the rejection of the aborted
\* computation leaves the map as it was; and a read of a key whose entry
\* holds an abort-rejected promise returns that promise without recomputing
\* and without touching the entry (getQuery and ensureQuery always,
\* fetchQuery and createQuery while the entry is neither invalidated nor
\* older than the staleTime in force).
C26_CancellationLeavesEntryCached ==
  [][/\ (last'.op = "teardown") => (queries' = queries /\ promises' = promises)
     /\ (last'.op = "reject") => (queries' = queries)
     /\ \A k \in DOMAIN queries :
          (/\ promises[queries[k].promise] = Rejected(AbortReason)
           /\ last'.key = k
           /\ \/ last'.op \in {"getQuery", "ensureQuery"}
              \/ /\ last'.op \in {"fetchQuery", "createQuery"}
                 /\ queries[k].createdAt.k = "fin"
                 /\ Fresh(queries[k], now, DescriptorStaleTime(last')))
          => (/\ last'.ret = queries[k].promise
              /\ last'.invoked = 0
              /\ queries' = queries
              /\ promises' = promises)]_vars

\* C26 witness: a handle's computation was aborted and rejected, and a later
\* createQuery read of the key has been served that rejected promise.
C26_Witness ==
  /\ last.op = "createQuery"
  /\ last.invoked = 0
  /\ promises[last.ret] = Rejected(AbortReason)
  /\ \E signal \in DOMAIN signals :
       signals[signal].aborted /\ last.ret \in signals[signal].promises
  /\ last.key \in DOMAIN queries
  /\ queries[last.key].promise = last.ret

(* ------------------------------ C27 ------------------------------ *)
\* C27: when fetchQuery or ensureQuery starts queryFn, the new entry is
\* already in the map: a lookup of the call's own key made at the moment
\* queryFn begins executing finds the entry whose promise the call returns.
C27_EntryInstalledBeforeQueryFn ==
  (/\ last.op \in {"fetchQuery", "ensureQuery"}
   /\ last.invoked = 1)
  => (/\ last.inside # NoEntry.promise
      /\ last.inside = last.ret)

(* ------------------------------ C28 ------------------------------ *)
\* A step installs a fresh entry under k: its promise did not exist before
\* the step and its createdAt is the time of the installation.
InstalledNow(k) ==
  /\ Len(promises') = Len(promises) + 1
  /\ queries'[k] = CacheEntry(Len(promises'), now')

\* C28: an entry keeps the promise it was created with and its createdAt
\* changes only through invalidation. In every step, an entry that stays
\* under its key with the same promise keeps its createdAt, or has it set to
\* negative infinity by invalidateQuery or invalidateQueries (so a negative
\* infinity is never reset, by getQuery and ensureQuery in particular); an
\* entry whose promise differs from the one before the step is a whole new
\* entry, with a promise that did not exist before and the installation time
\* as createdAt; and every createdAt is a past or present time or negative
\* infinity.
C28_EntriesAreReplacedWholesale ==
  [][/\ \A k \in DOMAIN queries' :
          /\ IF k \in DOMAIN queries /\ queries'[k].promise = queries[k].promise
             THEN \/ queries'[k].createdAt = queries[k].createdAt
                  \/ /\ queries'[k].createdAt = NEGATIVE_INFINITY
                     /\ last'.op \in {"invalidateQuery", "invalidateQueries"}
             ELSE InstalledNow(k)
          /\ \/ queries'[k].createdAt = NEGATIVE_INFINITY
             \/ /\ queries'[k].createdAt.k = "fin"
                /\ queries'[k].createdAt.n \in 0..now'
     /\ (last'.op \in {"getQuery", "ensureQuery"})
          => \A k \in DOMAIN queries : k \in DOMAIN queries' /\ queries'[k] = queries[k]
    ]_vars

\* C28 witness: ensureQuery has returned an invalidated entry, which still
\* holds the promise it had and negative infinity as createdAt.
C28_Witness ==
  /\ last.op = "ensureQuery"
  /\ last.pre # NoEntry
  /\ last.pre.createdAt = NEGATIVE_INFINITY
  /\ last.key \in DOMAIN queries
  /\ queries[last.key] = last.pre
  /\ last.ret = last.pre.promise

(* ------------------------------ C29 ------------------------------ *)
\* C29: staleness never evicts. A clock tick leaves the map and the promises
\* as they are (no queryFn is invoked); getQuery and ensureQuery return an
\* entry older than the staleTime in force and leave it in place; and an
\* entry leaves the map or loses its place to another only in a setQuery,
\* removeQuery or clear call, or in a fetchQuery or createQuery call that
\* found it invalidated or older than its staleTime.
C29_StalenessNeverEvicts ==
  [][/\ (last'.op = "tick")
          => (queries' = queries /\ promises' = promises /\ last'.invoked = 0)
     /\ \A k \in DOMAIN queries :
          /\ (/\ last'.op \in {"getQuery", "ensureQuery"}
              /\ last'.key = k
              /\ ~Fresh(queries[k], now, QueryClient_staleTime))
             => (/\ last'.ret = queries[k].promise
                 /\ last'.invoked = 0
                 /\ queries' = queries
                 /\ promises' = promises)
          /\ (k \notin DOMAIN queries' \/ queries'[k] # queries[k])
             => \/ last'.op \in {"setQuery", "removeQuery", "clear"}
                \/ last'.op \in {"invalidateQuery", "invalidateQueries"}
                   /\ k \in DOMAIN queries'
                   /\ queries'[k].promise = queries[k].promise
                \/ /\ last'.op \in {"fetchQuery", "createQuery"}
                   /\ last'.key = k
                   /\ ~Fresh(queries[k], now, DescriptorStaleTime(last'))
                   /\ last'.invoked = 1
    ]_vars

\* C29 witness: the clock has moved past the staleTime of an entry, which is
\* still in the map with the promise and createdAt it had.
C29_Witness ==
  /\ last.op = "tick"
  /\ \E k \in DOMAIN queries :
       /\ queries[k].createdAt.k = "fin"
       /\ ~Fresh(queries[k], now, QueryClient_staleTime)

(* ------------------------------ C30 ------------------------------ *)
\* The promises of computations started by a step: the pending promises that
\* did not exist before it.
ComputationsStarted ==
  {p \in DOMAIN promises' : p \notin DOMAIN promises /\ promises'[p] = Pending}

\* C30: no operation retries. A fetchQuery or ensureQuery call starts at most
\* one computation; setQuery, getQuery, removeQuery, clear, invalidateQuery
\* and invalidateQueries start none; and when a computation fulfils or
\* rejects, no computation is started and the map is left alone.
C30_NoOperationRetries ==
  [][/\ (last'.op \in {"fetchQuery", "ensureQuery"})
          => (/\ last'.invoked \in {0, 1}
              /\ Cardinality(ComputationsStarted) = last'.invoked
              /\ Len(promises') = Len(promises) + last'.invoked)
     /\ (last'.op = "setQuery")
          => (/\ last'.invoked = 0
              /\ ComputationsStarted = {})
     /\ (last'.op \in {"getQuery", "removeQuery", "clear",
                       "invalidateQuery", "invalidateQueries"})
          => (/\ last'.invoked = 0
              /\ promises' = promises)
     /\ (last'.op \in {"settle", "reject"})
          => (/\ ComputationsStarted = {}
              /\ Len(promises') = Len(promises)
              /\ queries' = queries)
    ]_vars

\* C30 witness: the computation of a cached entry has rejected; the entry
\* still holds the rejected promise and it is the only promise ever made.
C30_Witness ==
  /\ last.op = "reject"
  /\ Len(promises) = 1
  /\ promises[1] = Rejected(Reason)
  /\ \E k \in DOMAIN queries : queries[k].promise = 1
  /\ \E k \in DOMAIN fetched \cup DOMAIN ensureFetches : k \in DOMAIN queries

(* ------------------------------ C31 ------------------------------ *)
\* For plain values the stored promise is fulfilled with the value.
SetQueryOfPlainValueIsSettled ==
  (last.op = "setQuery" /\ last.key \in DOMAIN setValue)
  => promises[queries[last.key].promise] = Fulfilled(setValue[last.key])

\* C31: right after setQuery(k, v) the entry under k holds a promise that is
\* already settled, whatever v was, a pending promise included.
C31_SetQueryStoresSettledPromise ==
  (last.op = "setQuery" /\ last.threw = "none")
  => (/\ last.key \in DOMAIN queries
      /\ promises[queries[last.key].promise].state # "pending")

(* ------------------------------ C32 ------------------------------ *)
\* The handle is active on QueryKeys[i], resolves from the entry the map holds
\* for it, that entry has just been invalidated, and a computation can still
\* be started.
InvalidatedUnderHandle(i) ==
  LET k == KeyString(QueryKeys[i])
  IN /\ last.op \in {"invalidateQuery", "invalidateQueries"}
     /\ handle.active
     /\ handle.queryKey = QueryKeys[i]
     /\ k \in DOMAIN queries
     /\ queries[k].promise = handle.promise
     /\ queries[k].createdAt = NEGATIVE_INFINITY
     /\ Len(promises) < MaxPromises

\* The handle has re-derived for QueryKeys[i]: queryFn ran, the entry was
\* replaced and the handle resolves from the new promise. Or the case is over:
\* the handle has left the key, someone else replaced or removed the entry, or
\* no further computation can be started.
RederivedOrOver(i) ==
  LET k == KeyString(QueryKeys[i])
  IN \/ /\ last.op = "derive"
        /\ last.invoked = 1
        /\ last.key = k
        /\ handle.promise = last.ret
        /\ k \in DOMAIN queries
        /\ queries[k].promise = last.ret
     \/ ~handle.active
     \/ handle.queryKey # QueryKeys[i]
     \/ k \notin DOMAIN queries
     \/ queries[k].createdAt # NEGATIVE_INFINITY
     \/ Len(promises) = MaxPromises

\* When the handle's derivation found the entry in the map and read its
\* createdAt, invalidating that entry does make the handle re-derive.
InvalidationOfReusedEntryRederives ==
  \A i \in DOMAIN QueryKeys :
    (/\ InvalidatedUnderHandle(i)
     /\ handle.dep = MapGet(queries, KeyString(QueryKeys[i]), NoEntry).id)
      ~> RederivedOrOver(i)

\* C32: while a handle is active on a key, invalidating the key (exactly or
\* by prefix) eventually makes the handle re-derive: queryFn is invoked again,
\* the entry is replaced and the handle resolves from the new promise.
C32_InvalidationRederivesHandle ==
  \A i \in DOMAIN QueryKeys : InvalidatedUnderHandle(i) ~> RederivedOrOver(i)

(* ------------------------------ C33 ------------------------------ *)
\* The staleTime of the handle's Query: the one it resolved when it was
\* built, or, when the next read is to build it, the option, else the static
\* default as it is now.
HandleStaleTime ==
  IF handle.built THEN handle.staleTime
  ELSE IF handle.opt.k = "undefined" THEN QueryClient_staleTime ELSE handle.opt

\* C33: when optionsFn of a handle returns another key (or the same one
\* again), the map is not touched and handle.queryKey, when read, is the new
\* key; the derivation that follows resolves the handle from the entry of
\* the new key, reused without computation when it is there, not invalidated
\* and not older than the staleTime of the handle's Query, otherwise created
\* by one queryFn call; the entries of all other keys, the key just left
\* included, stay as they are; and the derivation does follow (as long as a
\* computation can still be started). A new key that cannot be serialised
\* makes the read and the derivation throw, the map staying as it is.
C33_KeyChangeSwitchesEntry ==
  /\ [][/\ (last'.op = "optionsFn")
             => (/\ handle'.queryKey = last'.queryKey
                 /\ queries' = queries
                 /\ promises' = promises)
        /\ (last'.op = "handle.queryKey")
             => (/\ IF Serializable(Arr(handle.queryKey))
                    THEN last'.threw = "none" /\ last'.argKey = handle.queryKey
                    ELSE last'.threw = "TypeError"
                 /\ handle'.queryKey = handle.queryKey
                 /\ handle'.promise = handle.promise
                 /\ queries' = queries
                 /\ promises' = promises)
        /\ (last'.op = "derive" /\ ~Serializable(Arr(handle.queryKey)))
             => (/\ last'.threw = "TypeError"
                 /\ last'.invoked = 0
                 /\ queries' = queries
                 /\ promises' = promises)
        /\ (last'.op = "derive" /\ Serializable(Arr(handle.queryKey)))
             => LET k == KeyString(handle.queryKey)
                IN /\ handle'.queryKey = handle.queryKey
                   /\ IF /\ k \in DOMAIN queries
                         /\ queries[k].createdAt.k = "fin"
                         /\ Fresh(queries[k], now, HandleStaleTime)
                      THEN /\ last'.invoked = 0
                           /\ handle'.promise = queries[k].promise
                           /\ queries' = queries
                           /\ promises' = promises
                      ELSE /\ last'.invoked = 1
                           /\ Len(promises') = Len(promises) + 1
                           /\ promises'[Len(promises')] = Pending
                           /\ handle'.promise = Len(promises')
                           /\ k \in DOMAIN queries'
                           /\ queries'[k].promise = Len(promises')
                   /\ \A j \in DOMAIN queries \ {k} :
                        j \in DOMAIN queries' /\ queries'[j] = queries[j]
       ]_vars
  /\ (/\ handle.active
      /\ handle.dirty
      /\ Serializable(Arr(handle.queryKey))
      /\ Len(promises) < MaxPromises)
       ~> (\/ ~handle.dirty
           \/ ~handle.active
           \/ ~Serializable(Arr(handle.queryKey))
           \/ Len(promises) = MaxPromises)

\* C33 witness: the handle went from the first key to the second and back;
\* coming back it resolved from the first key's entry without a computation,
\* the two computations made being the first ones of each key.
C33_Witness ==
  /\ last.op = "derive"
  /\ last.invoked = 0
  /\ handle.queryKey = QueryKeys[1]
  /\ DOMAIN queries = {KeyString(QueryKeys[1]), KeyString(QueryKeys[2])}
  /\ queries[KeyString(QueryKeys[1])].promise = 1
  /\ queries[KeyString(QueryKeys[2])].promise = 2
  /\ handle.promise = 1
  /\ Len(promises) = 2

(* ------------------------------ C34 ------------------------------ *)
\* C34: staleness runs from installation, not from settlement. A fetchQuery
\* that finds an entry whose promise is still pending and whose age exceeds
\* the staleTime in force runs queryFn again and replaces the entry with a new
\* pending promise; the first promise is left as it is (pending, no signal
\* aborted), so two computations of the key are in flight.
C34_PendingStaleEntryIsRefetched ==
  [][\A k \in DOMAIN queries :
       (/\ last'.op = "fetchQuery"
        /\ last'.key = k
        /\ promises[queries[k].promise] = Pending
        /\ queries[k].createdAt.k = "fin"
        /\ ~Fresh(queries[k], now, DescriptorStaleTime(last')))
       => (/\ last'.invoked = 1
           /\ last'.ret = Len(promises) + 1
           /\ promises' = Append(promises, Pending)
           /\ queries'[k].promise = last'.ret
           /\ promises'[queries[k].promise] = Pending
           /\ signals' = signals)
    ]_vars

\* C34 witness: fetchQuery has replaced a pending entry that had outlived its
\* staleTime; the promise it replaced and the one it returned are both
\* pending.
C34_Witness ==
  /\ last.op = "fetchQuery"
  /\ last.invoked = 1
  /\ last.pre # NoEntry
  /\ last.pre.createdAt.k = "fin"
  /\ last.pre.promise # last.ret
  /\ promises[last.pre.promise] = Pending
  /\ promises[last.ret] = Pending
  /\ queries[last.key].promise = last.ret

(* ------------------------------ C35 ------------------------------ *)
\* C35: the stale duration is not kept with the entry. Whether a fetchQuery
\* call on a key whose entry has not been invalidated recomputes is decided by the clock, the
\* entry's createdAt and the staleTime of the descriptor of that call alone:
\* it recomputes exactly when now - createdAt exceeds that staleTime, whoever
\* installed the entry and with whatever staleTime.
C35_StalenessIsPerCall ==
  [][\A k \in DOMAIN queries :
       (/\ last'.op = "fetchQuery"
        /\ last'.key = k
        /\ queries[k].createdAt.k = "fin")
       => /\ last'.invoked = IF Fresh(queries[k], now, DescriptorStaleTime(last'))
                             THEN 0 ELSE 1
          /\ (last'.invoked = 0) => (last'.ret = queries[k].promise /\ queries' = queries)
          /\ (last'.invoked = 1) => (queries'[k].promise = Len(promises) + 1)
    ]_vars

\* C35 witness: a caller with the shorter staleTime has replaced an entry,
\* one millisecond old, that a caller with staleTime 1 would have been
\* handed at that same instant.
C35_Witness ==
  /\ last.op = "fetchQuery"
  /\ last.invoked = 1
  /\ last.pre # NoEntry
  /\ last.pre.createdAt.k = "fin"
  /\ Fresh(last.pre, last.t0, Fin(1))
  /\ ~Fresh(last.pre, last.t0, DescriptorStaleTime(last))

(* ------------------------------ C36 ------------------------------ *)
\* C36: setQuery, removeQuery and clear do not notify a handle: such a call
\* leaves the handle exactly as it was, whatever it did to the map, the
\* promise a handle resolves from changes only when its derivation runs, and
\* a handle that has derived keeps resolving from the promise it obtained
\* until its key changes or the entry under its key is invalidated: its
\* derivation gives another promise only when, since it last ran, optionsFn
\* returned a key other than the one before or that entry was invalidated.
C36_ServesEntryUntilKeyChangeOrInvalidation ==
  [][/\ (last'.op \in {"setQuery", "removeQuery", "clear"}) => (handle' = handle)
     /\ (handle.active /\ handle'.active /\ handle'.promise # handle.promise)
          => (last'.op = "derive")
     /\ (/\ last'.op = "derive"
         /\ last'.threw = "none"
         /\ handle.promise # 0
         /\ handle'.promise # handle.promise)
          => handle.changed
    ]_vars

\* What the code does keep: setQuery, removeQuery and clear leave the handle
\* exactly as it was, whatever they did to the map. The promise a handle
\* resolves from changes only when its derivation runs, and a derivation is
\* made due only by optionsFn running again (with a new key array, whether
\* or not its content differs from the one before), or by an invalidation
\* that marks the very entry the handle's derivation read.
MapWritesDoNotNotifyHandles ==
  [][/\ (last'.op \in {"setQuery", "removeQuery", "clear"}) => (handle' = handle)
     /\ (handle.active /\ handle'.active /\ handle'.promise # handle.promise)
          => (last'.op = "derive")
     /\ (handle.active /\ ~handle.dirty /\ handle'.active /\ handle'.dirty)
          => \/ last'.op = "optionsFn"
             \/ /\ last'.op \in {"invalidateQuery", "invalidateQueries"}
                /\ \E k \in DOMAIN queries :
                     /\ queries[k].id = handle.dep
                     /\ queries[k].createdAt # NEGATIVE_INFINITY
                     /\ queries'[k].createdAt = NEGATIVE_INFINITY
    ]_vars

\* setQuery has put another entry under the key of a handle that had
\* derived; the handle still resolves from the promise it obtained and no
\* derivation is due.
SetQueryUnderDerivedHandleReached ==
  /\ last.op = "setQuery"
  /\ handle.active
  /\ ~handle.dirty
  /\ handle.promise # 0
  /\ KeyString(handle.queryKey) = last.key
  /\ queries[last.key].promise # handle.promise

(* ------------------------------ C37 ------------------------------ *)
\* C37: a queryFn that throws synchronously. The exception reaches the caller
\* of fetchQuery or ensureQuery exactly when the call gets to run queryFn (no
\* entry for the key, or for fetchQuery a stale one); the call returns
\* nothing and leaves the map and the promises as they were, so an absent key
\* stays absent and a stale entry stays, with its createdAt; and a fetchQuery
\* of the same key made right after runs queryFn again.
C37_SyncThrowLeavesMapUnchanged ==
  [][/\ (last'.op \in {"fetchQuery", "ensureQuery"} /\ last'.threw = "Error")
          => (/\ last'.invoked = 1
              /\ last'.ret = 0
              /\ queries' = queries
              /\ promises' = promises
              /\ \/ last'.key \notin DOMAIN queries
                 \/ /\ last'.op = "fetchQuery"
                    /\ ~Fresh(queries[last'.key], now, DescriptorStaleTime(last')))
     /\ (/\ last.op \in {"fetchQuery", "ensureQuery"}
         /\ last.threw = "Error"
         /\ last'.op = "fetchQuery"
         /\ last'.key = last.key
         /\ last'.opt = last.opt)
          => (last'.invoked = 1)
    ]_vars

\* C37 witness: fetchQuery found a stale entry, its queryFn threw, and the
\* entry is still in the map as it was.
C37_Witness ==
  /\ last.op = "fetchQuery"
  /\ last.threw = "Error"
  /\ last.pre # NoEntry
  /\ last.pre.createdAt.k = "fin"
  /\ last.key \in DOMAIN queries
  /\ queries[last.key] = last.pre

\* The same holds of a handle: a derivation whose queryFn throws builds no
\* entry and no promise; the signal queryFn was handed is not aborted, the
\* signal made under an earlier key is.
ThrowingDerivationLeavesMapUnchanged ==
  [][(last'.op \in {"derive", "createQuery"} /\ last'.threw = "Error")
       => (/\ queries' = queries
           /\ promises' = promises
           /\ last'.invoked = 1
           /\ last'.ret = 0
           /\ last'.signal \in DOMAIN signals'
           /\ ~signals'[last'.signal].aborted
           /\ (handle.signal # 0 /\ handle.signalStale /\ last'.op = "derive")
                => signals'[handle.signal].aborted)]_vars

\* A derivation threw although the key has an entry, which is still there.
ThrowingDerivationReached ==
  /\ last.op = "derive"
  /\ last.threw = "Error"
  /\ last.pre # NoEntry
  /\ queries[last.key] = last.pre

(* ------------------------------ C38 ------------------------------ *)
\* C38: a computation started by fetchQuery or ensureQuery gets no signal
\* (undefined) and no signal is made for it. A computation started by the
\* entry derivation of a createQuery handle gets a signal that is not
\* aborted, that was given to this computation only and that belongs to
\* the handle's current key derivation: when optionsFn has run again
\* since the handle's previous signal was made, the computation gets a new
\* signal and the previous one is aborted.
C38_OnlyHandlesGetASignal ==
  [][/\ (last'.op \in {"fetchQuery", "ensureQuery"} /\ last'.invoked = 1)
          => (/\ last'.signal = 0
              /\ signals' = signals)
     /\ (last'.op = "derive" /\ last'.invoked = 1)
          => (/\ last'.signal \in DOMAIN signals'
              /\ ~signals'[last'.signal].aborted
              /\ signals'[last'.signal].promises = {last'.ret}
              /\ handle'.signal = last'.signal
              /\ ~handle'.signalStale
              /\ (handle.signal # 0 /\ handle.signalStale)
                   => (/\ last'.signal # handle.signal
                       /\ last'.signal \notin DOMAIN signals
                       /\ signals'[handle.signal].aborted))
    ]_vars

\* C38 witness: after a key change the handle has started a computation under
\* a second signal, the signal of its earlier key being aborted.
C38_Witness ==
  /\ last.op = "derive"
  /\ last.invoked = 1
  /\ last.signal = 2
  /\ signals[1].aborted
  /\ ~signals[2].aborted
  /\ handle.signal = 2

(* ------------------------------ C39 ------------------------------ *)
\* C39: the maps of two QueryClient instances are disjoint. No fetchQuery,
\* ensureQuery, setQuery, removeQuery, clear, invalidateQuery or
\* invalidateQueries call on one client changes the keys, promises or
\* createdAt the other client holds, and constructing a client touches no
\* map; what the two share is the default staleTime, which a call on either
\* of them reads from the one static field.
C39_ClientsHaveDisjointMaps ==
  [][/\ (last'.op \in {"fetchQuery", "ensureQuery", "setQuery", "removeQuery",
                       "clear", "invalidateQuery", "invalidateQueries"})
          => (other' = other)
     /\ (last'.op = "newQueryClient")
          => (queries' = queries /\ other' = other)
     /\ (last'.op = "switchClient")
          => (/\ queries' = other
              /\ other' = queries
              /\ QueryClient_staleTime' = QueryClient_staleTime)
     /\ (last'.op \in {"fetchQuery", "ensureQuery"} /\ last'.opt = undefined)
          => (last'.staleTime = QueryClient_staleTime)
    ]_vars

\* C39 witness: both clients held an entry for the key; the one being called
\* has just cleared its map and the other client still has its entry.
C39_Witness ==
  /\ last.op = "clear"
  /\ queries = <<>>
  /\ KeyString(QueryKeys[1]) \in DOMAIN other
  /\ Len(constructed) >= 2
  /\ Len(promises) = 2

====
